---------------------------- MODULE Spec2Model ----------------------------
(***************************************************************************)
(* A model of the UDP transport of libavformat (udp.c): the session        *)
(* context UDPContext, udp_open with its fail label, ff_udp_set_remote_url,*)
(* udp_read, udp_write and udp_close, over an operating system whose       *)
(* calls (socket, setsockopt, bind, connect, ...) succeed or fail as the   *)
(* environment chooses.  Text taken from the URL is a sequence of          *)
(* one-character strings, so that strtol, the comma split of the source    *)
(* list and the buffer truncations are computed and not assumed.           *)
(***************************************************************************)
EXTENDS Integers, Sequences, FiniteSets, TLC

VARIABLES
    st,        \* lifecycle of the session: "Init", "Opening", "Open", "Failed", "Closed"
    pc,        \* position inside udp_open while st = "Opening"
    platform,  \* which source-filter facility the build has (the #if of udp_set_multicast_sources)
    plan,      \* what the caller does with the session once open: "use" it (read and write),
               \* "remote" (set_remote_url and write), "query" its port, or only "close" it
    uri,       \* the URL handed to udp_open, while udp_open runs
    h,         \* URLContext: flags, max_packet_size, is_streamed
    s,         \* UDPContext (h->priv_data)
    loc,       \* the locals of udp_open
    os,        \* the operating system's view of the one socket udp_open may create
    calls,     \* the OS calls issued by the operation in progress or last completed
    hist,      \* history of the session: the membership calls issued so far, the URL and
               \* the multicast flag of the successful open, what setRemote did since
    rxq,       \* the datagrams the OS holds for the socket, oldest first
    ret,       \* the last completed operation, its argument, return value and data
    setting,   \* the ff_udp_set_remote_url call that a second thread is running: its
               \* position and its locals
    dialog     \* the preferences dialog: whether it is shown, the signals it has emitted

vars == <<st, pc, platform, plan, uri, h, s, loc, os, calls, hist, rxq, ret, setting, dialog>>

(***************************************************************************)
(* Bounds of the model.                                                    *)
(***************************************************************************)
\* longest generated list of source hosts in the product part of the inputs
MaxSources == 2
\* most datagrams the OS holds for the socket
MaxQueue == 2

(***************************************************************************)
(* Program constants.                                                      *)
(***************************************************************************)
UDP_TX_BUF_SIZE == 32768
UDP_MAX_PKT_SIZE == 65536
DefaultTtl == 16
DefaultMaxPacketSize == 1472
\* char buf[256] of udp_open
OpenBufSize == 256
\* char buf[10] of ff_udp_set_remote_url
RemoteBufSize == 10
\* char *sources[32] of udp_open: FF_ARRAY_ELEMS(sources)
SourcesElems == 32

(***************************************************************************)
(* Text.                                                                   *)
(***************************************************************************)
Digit == {"0", "1", "2", "3", "4", "5", "6", "7", "8", "9"}

DigitVal(c) ==
    CASE c = "0" -> 0 [] c = "1" -> 1 [] c = "2" -> 2 [] c = "3" -> 3
      [] c = "4" -> 4 [] c = "5" -> 5 [] c = "6" -> 6 [] c = "7" -> 7
      [] c = "8" -> 8 [] c = "9" -> 9

\* the first n characters of t (all of t when it is shorter)
Take(t, n) == SubSeq(t, 1, IF Len(t) < n THEN Len(t) ELSE n)

\* t without its first n characters
Drop(t, n) == SubSeq(t, n + 1, Len(t))

\* the least element of a non-empty set of numbers
Least(S) == CHOOSE i \in S : \A j \in S : i <= j

\* strchr(t, c): index of the first c in t, 0 when there is none
strchr(t, c) ==
    LET First(hits) == IF hits = {} THEN 0 ELSE Least(hits)
    IN  First({i \in 1..Len(t) : t[i] = c})

\* number of leading digits of t from position i on
RECURSIVE DigitRun(_, _)
DigitRun(t, i) ==
    IF i <= Len(t) /\ t[i] \in Digit THEN 1 + DigitRun(t, i + 1) ELSE 0

RECURSIVE DigitsValue(_, _, _, _)
DigitsValue(t, i, n, acc) ==
    IF n = 0 THEN acc
    ELSE DigitsValue(t, i + 1, n - 1, 10 * acc + DigitVal(t[i]))

\* the int a long of 64 bits is stored as: the low 32 bits, kept here as two
\* halves of 16 bits, read in two's complement
IntOfHalves(hi, lo) ==
    IF hi >= 32768 THEN (hi - 65536) * 65536 + lo ELSE hi * 65536 + lo

\* the value of n digits from position i on, modulo 2^32, as halves <<hi, lo>>
RECURSIVE DigitsHalves(_, _, _, _)
DigitsHalves(t, i, n, acc) ==
    IF n = 0 THEN acc
    ELSE DigitsHalves(t, i + 1, n - 1,
                      <<(10 * acc[1] + (10 * acc[2] + DigitVal(t[i])) \div 65536) % 65536,
                        (10 * acc[2] + DigitVal(t[i])) % 65536>>)

\* the int that holds the long strtol returns for n digits: the number modulo
\* 2^32, and LONG_MAX (all bits of the int set) for a number beyond 18 digits
IntOfDigits(t, i, n) ==
    LET Value(a) == IntOfHalves(a[1], a[2])
    IN  IF n > 18 THEN 0 - 1 ELSE Value(DigitsHalves(t, i, n, <<0, 0>>))

\* the int that holds the negated long
NegatedInt(v) == IF v = (0 - 32768) * 65536 THEN v ELSE 0 - v

RECURSIVE SpaceRun(_, _)
SpaceRun(t, i) ==
    IF i <= Len(t) /\ t[i] = " " THEN 1 + SpaceRun(t, i + 1) ELSE 0

\* strtol(buf, &endptr, 10): leading blanks, an optional sign, then digits.
\* val is 0 and end is 0 (endptr = buf) when no digit is found.  val is the
\* int the callers store the long in (long of 64 bits, int of 32).
strtol(buf) ==
    LET sp   == SpaceRun(buf, 1)
        sgn  == IF sp < Len(buf) /\ buf[sp + 1] \in {"-", "+"} THEN 1 ELSE 0
        from == sp + sgn + 1
        n    == DigitRun(buf, from)
        mag  == IntOfDigits(buf, from, n)
    IN  IF n = 0 THEN [val |-> 0, end |-> 0]
        ELSE [val |-> IF sgn = 1 /\ buf[sp + 1] = "-" THEN NegatedInt(mag) ELSE mag,
              end |-> from + n - 1]

\* snprintf("%d") of a number >= 0
RECURSIVE DecimalText(_)
DecimalText(n) ==
    LET d == <<"0", "1", "2", "3", "4", "5", "6", "7", "8", "9">>
    IN  IF n < 10 THEN <<d[n + 1]>> ELSE DecimalText(n \div 10) \o <<d[(n % 10) + 1]>>

(***************************************************************************)
(* URLs.  A URL is its host, its port (-1 when none is written), whether   *)
(* it has a '?', and the tag=value pairs after the '?' in the order        *)
(* written.                                                                *)
(***************************************************************************)
Pair(t, v) == [tag |-> t, val |-> v]

Url(host, port, hasq, query) ==
    [host |-> host, port |-> port, hasq |-> hasq, query |-> query]

\* '+' in a value reads as a blank
PlusToSpace(v) == [i \in 1..Len(v) |-> IF v[i] = "+" THEN " " ELSE v[i]]

RECURSIVE FindPair(_, _, _)
FindPair(q, tag, i) ==
    IF i > Len(q) THEN 0
    ELSE IF q[i].tag = tag THEN i
    ELSE FindPair(q, tag, i + 1)

\* av_find_info_tag(arg, arg_size, tag, info): the value of the first pair
\* named tag, cut to arg_size - 1 characters.
av_find_info_tag(arg_size, tag, info) ==
    LET i == FindPair(info, tag, 1)
    IN  IF i = 0 THEN [found |-> FALSE, arg |-> <<>>]
        ELSE [found |-> TRUE, arg |-> Take(PlusToSpace(info[i].val), arg_size - 1)]

(***************************************************************************)
(* Socket addresses.  hi is the first byte of the address (it decides      *)
(* multicast), lo stands for the rest.                                     *)
(***************************************************************************)
SockAddr(family, hi, lo, port) ==
    [family |-> family, hi |-> hi, lo |-> lo, port |-> port]

\* a zeroed struct sockaddr_storage: sa_family is 0
NoAddr == SockAddr("AF_UNSPEC", 0, 0, 0)

\* sizeof(struct sockaddr_in), sizeof(struct sockaddr_in6)
AddrLen(a) == IF a.family = "AF_INET" THEN 16 ELSE 28

\* sizeof(struct sockaddr_storage)
SizeofStorage == 128

WithPort(a, port) == [a EXCEPT !.port = port]

\* IN_MULTICAST for AF_INET (224.0.0.0/4), IN6_IS_ADDR_MULTICAST for AF_INET6 (ff00::/8)
ff_is_multicast_address(a) ==
    IF a.family = "AF_INET" THEN (IF a.hi >= 224 /\ a.hi <= 239 THEN 1 ELSE 0)
    ELSE IF a.family = "AF_INET6" THEN (IF a.hi = 255 THEN 1 ELSE 0)
    ELSE 0

\* AVERROR(e) is -e
AVERROR(e) ==
    CASE e = "EIO"    -> 0 - 5
      [] e = "ENOENT" -> 0 - 2
      [] e = "EINVAL" -> 0 - 22
      [] e = "ENOSYS" -> 0 - 38
      [] e = "EAGAIN" -> 0 - 11
      [] e = "ECONNREFUSED" -> 0 - 111
      [] e = "EINTR"  -> 0 - 4
      [] e = "EADDRNOTAVAIL" -> 0 - 99

(***************************************************************************)
(* Host names.  The resolver knows numeric literals only: IPv4 in the      *)
(* forms a.b and a.b.c.d, and two IPv6 literals.                           *)
(***************************************************************************)
H_10_1      == <<"1", "0", ".", "1">>
H_10_11     == <<"1", "0", ".", "1", "1">>
H_10_0_0_11 == <<"1", "0", ".", "0", ".", "0", ".", "1", "1">>
H_239_1     == <<"2", "3", "9", ".", "1">>
H_239_2     == <<"2", "3", "9", ".", "2">>
H_ff02_1    == <<"f", "f", "0", "2", ":", ":", "1">>
H_v6_1      == <<":", ":", "1">>
H_bad       == <<"x">>
H_empty     == <<>>
\* the host av_url_split leaves for a URL whose query follows "udp://" at once
H_query     == <<"?">>

IsDigits(t) == t # <<>> /\ \A i \in 1..Len(t) : t[i] \in Digit

RECURSIVE SplitAt(_, _)
SplitAt(t, c) ==
    LET i == strchr(t, c)
    IN  IF i = 0 THEN <<t>> ELSE <<Take(t, i - 1)>> \o SplitAt(Drop(t, i), c)

Number(t) == DigitsValue(t, 1, Len(t), 0)

\* inet_aton for a.b (b fills the low bytes) and a.b.c.d
IsV4Literal(name) ==
    LET Valid(parts) ==
            /\ Len(parts) \in {2, 4}
            /\ \A i \in 1..Len(parts) : IsDigits(parts[i]) /\ Len(parts[i]) <= 3
            /\ \A i \in 1..Len(parts) : Number(parts[i]) <= 255
    IN  Valid(SplitAt(name, "."))

V4Addr(name) ==
    LET Value(parts) ==
            [family |-> "AF_INET", hi |-> Number(parts[1]),
             lo |-> IF Len(parts) = 2 THEN Number(parts[2])
                    ELSE Number(parts[2]) * 65536 + Number(parts[3]) * 256 + Number(parts[4]),
             port |-> 0]
    IN  Value(SplitAt(name, "."))

Resolvable(name) == name \in {H_ff02_1, H_v6_1} \/ IsV4Literal(name)

HostAddr(name) ==
    IF name = H_ff02_1 THEN [family |-> "AF_INET6", hi |-> 255, lo |-> 1, port |-> 0]
    ELSE IF name = H_v6_1 THEN [family |-> "AF_INET6", hi |-> 0, lo |-> 1, port |-> 0]
    ELSE V4Addr(name)

FamilyFilter(list, family) ==
    SelectSeq(list, LAMBDA a : family = "AF_UNSPEC" \/ a.family = family)

\* getaddrinfo(node, service, hints, &res): the candidate addresses, <<>> on
\* error.  A NULL node (node = <<>>) gives the wildcard addresses under
\* AI_PASSIVE and the loopback addresses otherwise.
getaddrinfo(node, service, family, ai_flags) ==
    LET base ==
            IF node = <<>>
            THEN IF "AI_PASSIVE" \in ai_flags
                 THEN <<SockAddr("AF_INET", 0, 0, 0), SockAddr("AF_INET6", 0, 0, 0)>>
                 ELSE <<SockAddr("AF_INET", 127, 1, 0), SockAddr("AF_INET6", 0, 1, 0)>>
            ELSE IF Resolvable(node) THEN <<HostAddr(node)>>
            ELSE <<>>
        Result(fit) == [i \in 1..Len(fit) |-> WithPort(fit[i], service)]
    IN  Result(FamilyFilter(base, family))

\* udp_resolve_host: the service is the port when it is > 0 and "0" otherwise;
\* an empty or '?'-led hostname resolves the NULL node.
udp_resolve_host(hostname, port, family, ai_flags) ==
    LET service == IF port > 0 THEN port ELSE 0
        node    == IF hostname # <<>> /\ hostname[1] # "?" THEN hostname ELSE <<>>
    IN  getaddrinfo(node, service, family, ai_flags)

\* udp_set_url: the first resolved address and its length, or AVERROR(EIO)
udp_set_url(addr, hostname, port) ==
    LET Set(res0) ==
            IF res0 = <<>> THEN [addr |-> addr, len |-> AVERROR("EIO")]
            ELSE [addr |-> res0[1], len |-> AddrLen(res0[1])]
    IN  Set(udp_resolve_host(hostname, port, "AF_UNSPEC", {}))

(***************************************************************************)
(* The operating system.  Every call the code issues is logged with the    *)
(* descriptor it names, the address (and source) it carries, a number      *)
(* (option value or byte count) and whether it succeeded.                  *)
(***************************************************************************)
Call(name, fd, addr, src, n, ok) ==
    [call |-> name, fd |-> fd, addr |-> addr, src |-> src, n |-> n, ok |-> ok, data |-> <<>>]

\* a call that carries a buffer
DataCall(name, fd, addr, n, ok, data) ==
    [call |-> name, fd |-> fd, addr |-> addr, src |-> NoAddr, n |-> n, ok |-> ok, data |-> data]

\* no socket exists yet
NoSocket ==
    [created |-> FALSE, closes |-> 0, family |-> "AF_UNSPEC", reuse |-> FALSE,
     bound |-> NoAddr, peer |-> NoAddr, nonblock |-> FALSE,
     sndbuf |-> 0, rcvbuf |-> 0, mttl |-> 0, members |-> {}, blocked |-> {}]

\* the descriptor socket() returns in this model
SockFd == 3

\* the port the OS gives a socket bound to port 0
OsBoundAddr(a) == IF a.port = 0 THEN WithPort(a, 49152) ELSE a

\* the OS refuses a source request whose source is not of the group's family,
\* or names a source the socket already has for the group
OsSourceOptOk(group, source, had) == group.family = source.family /\ ~(source \in had)

\* a connect call is refused when it does not carry a whole address
OsConnectOk(addr, addr_len) == addr.family # "AF_UNSPEC" /\ addr_len = AddrLen(addr)

NoHist ==
    [joins |-> <<>>, srcjoins |-> <<>>, blocks |-> <<>>, leaves |-> <<>>,
     url |-> Url(<<>>, 0 - 1, FALSE, <<>>), mcast |-> 0, remoted |-> FALSE, cfail |-> FALSE]

Named(cs, name) == SelectSeq(cs, LAMBDA c : c.call = name)

(***************************************************************************)
(* Multicast helpers.                                                      *)
(***************************************************************************)
\* a TTL call that passes the default whatever the option says
udp_set_multicast_ttl_default(sockfd, mcastTTL, addr, ok) ==
    IF addr.family \in {"AF_INET", "AF_INET6"}
    THEN [ret   |-> IF ok THEN 0 ELSE 0 - 1,
          calls |-> <<Call("set_ttl", sockfd, addr, NoAddr, DefaultTtl, ok)>>]
    ELSE [ret |-> 0, calls |-> <<>>]

\* udp_set_multicast_ttl: IP_MULTICAST_TTL or IPV6_MULTICAST_HOPS by family
udp_set_multicast_ttl(sockfd, mcastTTL, addr, ok) ==
    IF addr.family \in {"AF_INET", "AF_INET6"}
    THEN [ret   |-> IF ok THEN 0 ELSE 0 - 1,
          calls |-> <<Call("set_ttl", sockfd, addr, NoAddr, mcastTTL, ok)>>]
    ELSE [ret |-> 0, calls |-> <<>>]

\* udp_join_multicast_group: IP_ADD_MEMBERSHIP or IPV6_ADD_MEMBERSHIP by family
udp_join_multicast_group(sockfd, addr, ok) ==
    IF addr.family \in {"AF_INET", "AF_INET6"}
    THEN [ret   |-> IF ok THEN 0 ELSE 0 - 1,
          calls |-> <<Call("join", sockfd, addr, NoAddr, 0, ok)>>]
    ELSE [ret |-> 0, calls |-> <<>>]

\* a leave that is issued twice
udp_leave_multicast_group_twice(sockfd, addr, ok) ==
    IF addr.family \in {"AF_INET", "AF_INET6"}
    THEN [ret   |-> IF ok THEN 0 ELSE 0 - 1,
          calls |-> <<Call("leave", sockfd, addr, NoAddr, 0, ok),
                      Call("leave", sockfd, addr, NoAddr, 0, ok)>>]
    ELSE [ret |-> 0, calls |-> <<>>]

\* udp_leave_multicast_group: IP_DROP_MEMBERSHIP or IPV6_DROP_MEMBERSHIP by family
udp_leave_multicast_group(sockfd, addr, ok) ==
    IF addr.family \in {"AF_INET", "AF_INET6"}
    THEN [ret   |-> IF ok THEN 0 ELSE 0 - 1,
          calls |-> <<Call("leave", sockfd, addr, NoAddr, 0, ok)>>]
    ELSE [ret |-> 0, calls |-> <<>>]

SourceCallName(include) == IF include # 0 THEN "join_source" ELSE "block_source"

\* the loop of udp_set_multicast_sources: source i is resolved and its
\* setsockopt issued, and the first source that fails ends the loop.  failAt
\* is the source whose setsockopt the environment fails (0: none); v4only is
\* the branch that uses struct ip_mreq_source.
SourcesLoop(v4only, sockfd, addr, sources, nb_sources, include, failAt) ==
    LET Loop(sourceaddr) ==
            LET unresolved(i) == sourceaddr[i] = <<>>
                wrongfamily(i) == v4only /\ sourceaddr[i][1].family # "AF_INET"
                had(i) == {sourceaddr[j][1] : j \in {k \in 1..(i - 1) : sourceaddr[k] # <<>>}}
                ok(i) == i # failAt /\ OsSourceOptOk(addr, sourceaddr[i][1], had(i))
                Run(stops) ==
                    IF stops = {}
                    THEN [ret   |-> 0,
                          calls |-> [i \in 1..nb_sources |->
                                       Call(SourceCallName(include), sockfd, addr,
                                            sourceaddr[i][1], 0, TRUE)]]
                    ELSE LET Stop(last) ==
                                 IF unresolved(last)
                                 THEN [ret |-> AVERROR("ENOENT"), n |-> last - 1]
                                 ELSE IF wrongfamily(last)
                                 THEN [ret |-> AVERROR("EINVAL"), n |-> last - 1]
                                 ELSE [ret |-> AVERROR("EADDRNOTAVAIL"), n |-> last]
                             Out(last, end) ==
                                 [ret   |-> end.ret,
                                  calls |-> [i \in 1..end.n |->
                                               Call(SourceCallName(include), sockfd, addr,
                                                    sourceaddr[i][1], 0, i < last)]]
                             End(last) == Out(last, Stop(last))
                         IN  End(Least(stops))
            IN  Run({i \in 1..nb_sources : unresolved(i) \/ wrongfamily(i) \/ ~ok(i)})
    IN  Loop([i \in 1..nb_sources |->
                udp_resolve_host(sources[i], 0, "AF_UNSPEC", {"AI_NUMERICHOST"})])

\* a build whose IPv4-only facility is used as if it took any family
udp_set_multicast_sources_any_family(plat, sockfd, addr, addr_len, sources, nb_sources, include, failAt) ==
    IF plat = "none" THEN [ret |-> AVERROR("ENOSYS"), calls |-> <<>>]
    ELSE SourcesLoop(FALSE, sockfd, addr, sources, nb_sources, include, failAt)

\* a source loop that goes on to the next source when one cannot be resolved
\* or its call fails, and reports the failure at the end
udp_set_multicast_sources_keep_going(plat, sockfd, addr, addr_len, sources, nb_sources, include, failAt) ==
    LET Loop(sourceaddr) ==
            LET idx == SelectSeq([i \in 1..nb_sources |-> i], LAMBDA i : sourceaddr[i] # <<>>)
                ok(i) == i # failAt /\ addr.family = sourceaddr[i][1].family
            IN  [ret   |-> IF \A i \in 1..nb_sources : sourceaddr[i] # <<>> /\ ok(i)
                           THEN 0 ELSE AVERROR("ENOENT"),
                 calls |-> [k \in 1..Len(idx) |->
                              Call(SourceCallName(include), sockfd, addr,
                                   sourceaddr[idx[k]][1], 0, ok(idx[k]))]]
    IN  IF plat = "none" THEN [ret |-> AVERROR("ENOSYS"), calls |-> <<>>]
        ELSE Loop([i \in 1..nb_sources |->
                     udp_resolve_host(sources[i], 0, "AF_UNSPEC", {"AI_NUMERICHOST"})])

\* udp_set_multicast_sources, by the facility the build has
udp_set_multicast_sources(plat, sockfd, addr, addr_len, sources, nb_sources, include, failAt) ==
    IF plat = "group_source_req"
    THEN SourcesLoop(FALSE, sockfd, addr, sources, nb_sources, include, failAt)
    ELSE IF plat = "ip_mreq_source"
    THEN IF addr.family # "AF_INET"
         THEN [ret |-> AVERROR("EINVAL"), calls |-> <<>>]
         ELSE SourcesLoop(TRUE, sockfd, addr, sources, nb_sources, include, failAt)
    ELSE [ret |-> AVERROR("ENOSYS"), calls |-> <<>>]

(***************************************************************************)
(* The session context and the socket factory.                             *)
(***************************************************************************)
\* priv_data as allocated: all zero
ZeroContext ==
    [udp_fd |-> 0, ttl |-> 0, buffer_size |-> 0, is_multicast |-> 0,
     local_port |-> 0, reuse_socket |-> 0, dest_addr |-> NoAddr,
     dest_addr_len |-> 0, is_connected |-> 0]

\* a socket factory that gives up when socket() fails for the first candidate
udp_socket_create_first_only(ctx, localaddr, nfail) ==
    LET family == IF ctx.dest_addr.family # "AF_UNSPEC"
                  THEN ctx.dest_addr.family ELSE "AF_UNSPEC"
        Create(res0) ==
            IF res0 = <<>> THEN [fd |-> 0 - 1, addr |-> NoAddr, len |-> 0, calls |-> <<>>]
            ELSE IF nfail > 0
            THEN [fd |-> 0 - 1, addr |-> NoAddr, len |-> 0,
                  calls |-> <<Call("socket", 0 - 1, res0[1], NoAddr, 0, FALSE)>>]
            ELSE [fd |-> SockFd, addr |-> res0[1], len |-> AddrLen(res0[1]),
                  calls |-> <<Call("socket", SockFd, res0[1], NoAddr, 0, TRUE)>>]
    IN  Create(udp_resolve_host(localaddr, ctx.local_port, family, {"AI_PASSIVE"}))

\* udp_socket_create: the first candidate whose socket() succeeds; the
\* environment fails socket() for the first nfail candidates.
udp_socket_create(ctx, localaddr, nfail) ==
    LET family == IF ctx.dest_addr.family # "AF_UNSPEC"
                  THEN ctx.dest_addr.family ELSE "AF_UNSPEC"
        Create(res0) ==
            LET tried == IF nfail < Len(res0) THEN nfail + 1 ELSE Len(res0)
                log   == [i \in 1..tried |->
                            Call("socket", IF i > nfail THEN SockFd ELSE 0 - 1,
                                 res0[i], NoAddr, 0, i > nfail)]
            IN  IF res0 = <<>> \/ nfail >= Len(res0)
                THEN [fd |-> 0 - 1, addr |-> NoAddr, len |-> 0, calls |-> log]
                ELSE [fd |-> SockFd, addr |-> res0[nfail + 1],
                      len |-> AddrLen(res0[nfail + 1]), calls |-> log]
    IN  Create(udp_resolve_host(localaddr, ctx.local_port, family, {"AI_PASSIVE"}))

\* udp_port: getnameinfo(NI_NUMERICSERV) writes the port in decimal, strtol
\* reads it; -1 when getnameinfo fails
udp_port(addr, addr_len, ok) ==
    IF ~ok THEN 0 - 1 ELSE strtol(DecimalText(addr.port)).val

\* ff_udp_get_local_port: the local_port field of the context
ff_udp_get_local_port(ctx) == ctx.local_port

\* udp_get_file_handle: the udp_fd field of the context
udp_get_file_handle(ctx) == ctx.udp_fd

\* the connect option without the reset of is_connected when connect fails
ff_udp_set_remote_url_connect_keep(s2, found, now, connectOk) ==
    LET was_connected == s2.is_connected
        cc == Call("connect", s2.udp_fd, s2.dest_addr, NoAddr, s2.dest_addr_len, connectOk)
    IN  IF ~found THEN [s |-> s2, ret |-> 0, calls |-> <<>>]
        ELSE IF now # 0 /\ was_connected = 0
        THEN [s |-> [s2 EXCEPT !.is_connected = now],
              ret |-> IF connectOk THEN 0 ELSE AVERROR("EIO"), calls |-> <<cc>>]
        ELSE [s |-> [s2 EXCEPT !.is_connected = now], ret |-> 0, calls |-> <<>>]

\* the connect option with a connect call whenever the value is not 0
ff_udp_set_remote_url_connect_again(s2, found, now, connectOk) ==
    LET cc == Call("connect", s2.udp_fd, s2.dest_addr, NoAddr, s2.dest_addr_len, connectOk)
    IN  IF ~found THEN [s |-> s2, ret |-> 0, calls |-> <<>>]
        ELSE IF now # 0
        THEN IF connectOk
             THEN [s |-> [s2 EXCEPT !.is_connected = now], ret |-> 0, calls |-> <<cc>>]
             ELSE [s |-> [s2 EXCEPT !.is_connected = 0],
                   ret |-> AVERROR("EIO"), calls |-> <<cc>>]
        ELSE [s |-> [s2 EXCEPT !.is_connected = now], ret |-> 0, calls |-> <<>>]

\* lines 341-354 of ff_udp_set_remote_url: the connect option, when found,
\* with value now, on the context s2 that holds the new destination
ff_udp_set_remote_url_connect(s2, found, now, connectOk) ==
    LET was_connected == s2.is_connected
        cc == Call("connect", s2.udp_fd, s2.dest_addr, NoAddr, s2.dest_addr_len, connectOk)
    IN  IF ~found THEN [s |-> s2, ret |-> 0, calls |-> <<>>]
        ELSE IF now # 0 /\ was_connected = 0
        THEN IF connectOk
             THEN [s |-> [s2 EXCEPT !.is_connected = now], ret |-> 0, calls |-> <<cc>>]
             ELSE [s |-> [s2 EXCEPT !.is_connected = 0],
                   ret |-> AVERROR("EIO"), calls |-> <<cc>>]
        ELSE [s |-> [s2 EXCEPT !.is_connected = now], ret |-> 0, calls |-> <<>>]

\* ff_udp_set_remote_url on context ctx; connectOk is the outcome of the
\* connect call when one is issued.
ff_udp_set_remote_url(ctx, u, connectOk) ==
    LET Option(s2, tag) ==
            ff_udp_set_remote_url_connect(s2, tag.found, strtol(tag.arg).val, connectOk)
        Remote(r) ==
            IF r.len < 0
            THEN [s |-> [ctx EXCEPT !.dest_addr = r.addr, !.dest_addr_len = r.len],
                  ret |-> AVERROR("EIO"), calls |-> <<>>]
            ELSE Option([ctx EXCEPT !.dest_addr = r.addr, !.dest_addr_len = r.len,
                                    !.is_multicast = ff_is_multicast_address(r.addr)],
                        IF u.hasq THEN av_find_info_tag(RemoteBufSize, "connect", u.query)
                        ELSE [found |-> FALSE, arg |-> <<>>])
    IN  Remote(udp_set_url(ctx.dest_addr, u.host, u.port))

\* a cut that stops at the first comma
SplitSources_first(buf) ==
    LET Cut(next) == IF next = 0 THEN <<buf>> ELSE <<Take(buf, next - 1)>>
    IN  Cut(strchr(buf, ","))

\* the loop of udp_open that cuts buf at its commas: one entry per comma and
\* one for the rest, and no more than FF_ARRAY_ELEMS(sources) entries
SplitSources(buf) ==
    LET Cut(commas) ==
            LET nth(k) == CHOOSE i \in commas : Cardinality({j \in commas : j < i}) = k - 1
                num_sources == IF Cardinality(commas) + 1 < SourcesElems
                               THEN Cardinality(commas) + 1 ELSE SourcesElems
                source_start(k) == IF k = 1 THEN 1 ELSE nth(k - 1) + 1
                next(k) == IF k <= Cardinality(commas) THEN nth(k) ELSE Len(buf) + 1
            IN  [k \in 1..num_sources |-> SubSeq(buf, source_start(k), next(k) - 1)]
    IN  Cut({i \in 1..Len(buf) : buf[i] = ","})

(***************************************************************************)
(* Inputs: the URL, the access flags and the build's source-filter         *)
(* facility of one session.                                                *)
(***************************************************************************)
RECURSIVE JoinComma(_)
JoinComma(list) ==
    IF list = <<>> THEN <<>>
    ELSE IF Len(list) = 1 THEN list[1]
    ELSE list[1] \o <<",">> \o JoinComma(Tail(list))

Opt(present, tag, val) == IF present THEN <<Pair(tag, val)>> ELSE <<>>

UrlOf(host, port, query) == Url(host, port, query # <<>>, query)

Platforms == {"group_source_req", "ip_mreq_source", "none"}

FlagSets == {{"READ"}, {"WRITE"}, {"READ", "WRITE"}}

SourceHosts == {H_10_1, H_10_11, H_v6_1, H_bad}

HostLists == UNION {[1..k -> SourceHosts] : k \in 0..MaxSources}

\* the sessions the caller goes on to use: no host, a unicast and a multicast
\* destination, connected at open or not
UseUrls ==
    {UrlOf(host, 5004, Opt(c, "connect", <<"1">>)) :
        host \in {H_empty, H_10_1, H_239_1}, c \in BOOLEAN}

\* destinations of every kind, with and without connect, reuse and a bad local address
MainUrls ==
    {UrlOf(host, 5004, Opt(c, "connect", <<"1">>) \o Opt(r, "reuse", <<"1">>)
                        \o Opt(l, "localaddr", H_bad)) :
        host \in {H_empty, H_10_1, H_239_1, H_ff02_1, H_bad},
        c \in BOOLEAN, r \in BOOLEAN, l \in BOOLEAN}

\* multicast groups with an include list (sources) or an exclude list (block)
SourceUrls ==
    {UrlOf(host, 5004, <<Pair(tag, JoinComma(list))>>) :
        host \in {H_239_1, H_ff02_1}, tag \in {"sources", "block"}, list \in HostLists}

\* a list of n times the same host
Repeat(host, n) == [i \in 1..n |-> host]

\* a list of more hosts than the sources array holds: 10.1, 10.2, ...
ManyHosts == [i \in 1..(SourcesElems + 1) |-> <<"1", "0", ".">> \o DecimalText(i)]

\* a list whose text is one character longer than the option buffer holds
LongHosts == <<H_10_1, H_10_11, H_10_11>> \o Repeat(H_10_0_0_11, 24)

LongUrls ==
    {UrlOf(H_239_1, 5004, <<Pair("sources", JoinComma(ManyHosts))>>),
     UrlOf(H_239_1, 5004, <<Pair("sources", JoinComma(LongHosts))>>),
     UrlOf(H_239_1, 5004, <<Pair("block", JoinComma(ManyHosts))>>)}

\* the sessions opened for reading or for writing go on to be used, the ones
\* opened for both are closed
UseInputs ==
    [uri : UseUrls, flags : {{"READ"}, {"WRITE"}}, platform : {"group_source_req"},
     plan : {"use", "remote"}]
    \cup [uri : UseUrls, flags : {{"READ", "WRITE"}}, platform : {"group_source_req"},
          plan : {"close"}]

MainInputs ==
    [uri : MainUrls \ UseUrls, flags : FlagSets, platform : {"group_source_req"},
     plan : {"close"}]

SourceInputs ==
    [uri : SourceUrls, flags : {{"READ"}, {"READ", "WRITE"}}, platform : Platforms,
     plan : {"close"}]

LongInputs ==
    [uri : LongUrls, flags : {{"READ"}}, platform : {"group_source_req"}, plan : {"close"}]

\* a multicast group with both a sources and a block option, in either order
FilterUrls ==
    {UrlOf(H_239_1, 5004, <<Pair("sources", H_10_1), Pair("block", H_v6_1)>>),
     UrlOf(H_239_1, 5004, <<Pair("block", H_v6_1), Pair("sources", H_10_1)>>)}

FilterInputs ==
    [uri : FilterUrls, flags : {{"READ"}}, platform : {"group_source_req"}, plan : {"close"}]

\* a URL without a host whose query starts at once, with and without connect
NoHostUrls == {UrlOf(H_query, 0 - 1, <<Pair("connect", <<c>>)>>) : c \in {"0", "1"}}

NoHostInputs ==
    [uri : NoHostUrls, flags : FlagSets, platform : {"group_source_req"}, plan : {"close"}]

\* an integer option whose value is no number, and a key udp_open does not know
MalformedUrls ==
    {UrlOf(H_239_1, 5004, <<Pair(tag, <<"x">>)>>) :
        tag \in {"ttl", "localport", "pkt_size", "buffer_size", "connect", "foo"}}

MalformedInputs ==
    [uri : MalformedUrls, flags : {{"READ"}, {"WRITE"}}, platform : {"group_source_req"},
     plan : {"close"}]

\* connect values that the two buffers read differently: 2^32, which is 0 as
\* an int and 429496729 when cut to nine characters, and 1 behind nine zeros
H_2_32 == <<"4", "2", "9", "4", "9", "6", "7", "2", "9", "6">>

H_0_1 == <<"0", "0", "0", "0", "0", "0", "0", "0", "0", "1">>

ConnectUrls == {UrlOf(H_10_1, 5004, <<Pair("connect", v)>>) : v \in {H_2_32, H_0_1}}

ConnectInputs ==
    [uri : ConnectUrls, flags : {{"READ"}, {"WRITE"}}, platform : {"group_source_req"},
     plan : {"close"}]

\* a reuse option that disables, is bare, or carries a number other than 1
ReuseUrls ==
    {UrlOf(host, 5004, <<Pair("reuse", v)>>) :
        host \in {H_10_1, H_239_1}, v \in {<<"0">>, <<>>, <<"2">>}}

ReuseInputs ==
    [uri : ReuseUrls, flags : {{"READ"}, {"WRITE"}}, platform : {"group_source_req"},
     plan : {"close"}]

\* a ttl and a buffer size other than the defaults
OptionUrls ==
    {UrlOf(host, 5004, <<Pair("ttl", <<"3", "2">>), Pair("buffer_size", <<"4", "0", "9", "6">>)>>) :
        host \in {H_10_1, H_239_1}}

OptionInputs ==
    [uri : OptionUrls, flags : FlagSets, platform : {"group_source_req"}, plan : {"close"}]

\* the local ports asked for: none, or 6000
LocalPorts == {<<>>, <<"6", "0", "0", "0">>}

\* URLs without a port (av_url_split leaves -1), with port 0 and with a port,
\* with and without a localport option
PortUrls ==
    {UrlOf(host, port, Opt(lp # <<>>, "localport", lp)) :
        host \in {H_empty, H_10_1, H_239_1}, port \in {0 - 1, 0, 5004}, lp \in LocalPorts}

\* sessions the caller opens to ask for their local port
PortInputs ==
    [uri : PortUrls, flags : FlagSets, platform : {"group_source_req"}, plan : {"query"}]

\* sessions the caller opened with AVIO_FLAG_NONBLOCK
NonblockInputs ==
    [uri : {UrlOf(H_10_1, 5004, <<>>), UrlOf(H_239_1, 5004, <<Pair("connect", <<"1">>)>>)},
     flags : {{"READ", "NONBLOCK"}, {"WRITE", "NONBLOCK"}},
     platform : {"group_source_req"}, plan : {"use"}]

\* what is written
Payloads == {<<1, 2>>}

\* the datagrams that arrive: an empty one and one of two bytes
Datagrams == {<<>>, <<1, 2>>}

\* the sizes of the buffers handed to udp_read
ReadSizes == {1, 2}

\* the URLs handed to ff_udp_set_remote_url on an open session
RemoteUrls ==
    {UrlOf(host, 5004, q) :
        host \in {H_10_1, H_239_2},
        q \in {<<>>, <<Pair("connect", <<"1">>)>>, <<Pair("connect", <<"0">>)>>}}
    \cup {UrlOf(H_bad, 5004, <<Pair("connect", <<"1">>)>>)}

NoUrl == Url(<<>>, 0 - 1, FALSE, <<>>)

(***************************************************************************)
(* Initial state: the context as allocated, no socket, nothing called.     *)
(***************************************************************************)
InitLoc ==
    [hostname |-> <<>>, localaddr |-> <<>>, port |-> 0, udp_fd |-> 0 - 1,
     bind_ret |-> 0 - 1, my_addr |-> NoAddr, len |-> 0, reuse_specified |-> 0,
     include |-> 0, num_sources |-> 0, sources |-> <<>>, is_output |-> 0]

\* the last call and its result; again says that the call was given the
\* argument of the same call just before it
Ret(op, arg, val) == [op |-> op, arg |-> arg, val |-> val, data |-> <<>>, again |-> FALSE]

DataRet(op, val, data) ==
    [op |-> op, arg |-> NoUrl, val |-> val, data |-> data, again |-> FALSE]

\* no ff_udp_set_remote_url call is running in a second thread
NoSetting == [pc |-> "idle", uri |-> NoUrl, len |-> 0, was_connected |-> 0]

\* the preferences dialog before it is shown
\* the preferences dialog after construction: hidden, no button clicked, no
\* signal emitted, the widgets holding the preferences given to it
NoDialog ==
    [visible |-> FALSE, applyRequested |-> 0, resetRequested |-> 0, clicked |-> "none",
     pref |-> "given"]

InitWith(in) ==
    /\ st = "Init"
    /\ pc = "parse"
    /\ platform = in.platform
    /\ plan = in.plan
    /\ uri = in.uri
    /\ h = [flags |-> in.flags, max_packet_size |-> 0, is_streamed |-> 0]
    /\ s = ZeroContext
    /\ loc = InitLoc
    /\ os = NoSocket
    /\ calls = <<>>
    /\ hist = NoHist
    /\ rxq = <<>>
    /\ ret = Ret("none", NoUrl, 0)
    /\ setting = NoSetting
    /\ dialog = NoDialog

Init ==
    \/ \E in \in UseInputs : InitWith(in)
    \/ \E in \in MainInputs : InitWith(in)
    \/ \E in \in SourceInputs : InitWith(in)
    \/ \E in \in LongInputs : InitWith(in)
    \/ \E in \in NonblockInputs : InitWith(in)
    \/ \E in \in PortInputs : InitWith(in)
    \/ \E in \in ReuseInputs : InitWith(in)
    \/ \E in \in OptionInputs : InitWith(in)
    \/ \E in \in FilterInputs : InitWith(in)
    \/ \E in \in NoHostInputs : InitWith(in)
    \/ \E in \in MalformedInputs : InitWith(in)
    \/ \E in \in ConnectInputs : InitWith(in)

(***************************************************************************)
(* udp_open, step by step.  While st = "Opening" no other operation runs.  *)
(***************************************************************************)
Tag(size, tag, u) ==
    IF u.hasq THEN av_find_info_tag(size, tag, u.query)
    ELSE [found |-> FALSE, arg |-> <<>>]

\* the option block of udp_open: the context and the locals it sets
\* a source filter that prefers the block option to the sources option
udp_open_filter_block_first(srcs, block) ==
    [include |-> IF srcs.found /\ ~block.found THEN 1 ELSE 0,
     buf     |-> IF block.found THEN block.arg ELSE srcs.arg]

\* lines 433-435: a sources option sets include and leaves its value in buf;
\* the block option is looked up, and its value taken, only without it
udp_open_filter(srcs, block) ==
    [include |-> IF srcs.found THEN 1 ELSE 0,
     buf     |-> IF srcs.found THEN srcs.arg ELSE block.arg]

udp_open_options(ctx, u, is_output) ==
    LET reuse  == Tag(OpenBufSize, "reuse", u)
        ttl    == Tag(OpenBufSize, "ttl", u)
        lport  == Tag(OpenBufSize, "localport", u)
        pkt    == Tag(OpenBufSize, "pkt_size", u)
        bsize  == Tag(OpenBufSize, "buffer_size", u)
        conn   == Tag(OpenBufSize, "connect", u)
        laddr  == Tag(OpenBufSize, "localaddr", u)
        srcs   == Tag(OpenBufSize, "sources", u)
        block  == Tag(OpenBufSize, "block", u)
        include == udp_open_filter(srcs, block).include
        buf    == udp_open_filter(srcs, block).buf
    IN  [s |-> [ctx EXCEPT
                  !.ttl = IF ttl.found THEN strtol(ttl.arg).val ELSE DefaultTtl,
                  !.buffer_size =
                      IF bsize.found THEN strtol(bsize.arg).val
                      ELSE IF is_output THEN UDP_TX_BUF_SIZE ELSE UDP_MAX_PKT_SIZE,
                  !.reuse_socket =
                      IF reuse.found
                      THEN (IF strtol(reuse.arg).end = 0 THEN 1 ELSE strtol(reuse.arg).val)
                      ELSE ctx.reuse_socket,
                  !.local_port = IF lport.found THEN strtol(lport.arg).val ELSE ctx.local_port,
                  !.is_connected = IF conn.found THEN strtol(conn.arg).val ELSE ctx.is_connected],
         max_packet_size |-> IF pkt.found THEN strtol(pkt.arg).val ELSE DefaultMaxPacketSize,
         reuse_specified |-> IF reuse.found THEN 1 ELSE 0,
         localaddr |-> IF laddr.found THEN laddr.arg ELSE <<>>,
         include |-> include,
         sources |-> IF include = 1 \/ block.found THEN SplitSources(buf) ELSE <<>>]

\* an output session is any session with write access
udp_open_is_output_write(flags) == "WRITE" \in flags

\* line 400: an output session is a session without read access
udp_open_is_output(flags) == ~("READ" \in flags)

\* lines 397-452: defaults and options; av_strdup of entry oom fails (0: none)
udp_open_parse ==
    /\ st = "Init"
    /\ LET is_output == udp_open_is_output(h.flags)
       IN  \E o \in {udp_open_options(s, uri, is_output)} : \E oom \in 0..Len(o.sources) :
             /\ st' = "Opening"
             /\ h' = [h EXCEPT !.is_streamed = 1, !.max_packet_size = o.max_packet_size]
             /\ s' = o.s
             /\ loc' = [loc EXCEPT
                          !.is_output = IF is_output THEN 1 ELSE 0,
                          !.reuse_specified = o.reuse_specified,
                          !.localaddr = o.localaddr,
                          !.include = o.include,
                          !.sources = IF oom = 0 THEN o.sources ELSE Take(o.sources, oom - 1),
                          !.num_sources = IF oom = 0 THEN Len(o.sources) ELSE oom - 1]
             /\ pc' = IF oom = 0 THEN "dest" ELSE "fail"
    /\ calls' = <<>>
    /\ UNCHANGED <<setting, dialog, platform, plan, uri, os, hist, rxq, ret>>

\* lines 454-465: av_url_split, then the destination unless the host is empty
udp_open_dest ==
    /\ st = "Opening" /\ pc = "dest"
    /\ LET hostname == uri.host
           nohost   == hostname = <<>> \/ hostname[1] = "?"
       IN  /\ loc' = [loc EXCEPT !.hostname = hostname, !.port = uri.port]
           /\ IF nohost
              THEN /\ pc' = IF ~("READ" \in h.flags) THEN "fail" ELSE "create"
                   /\ UNCHANGED <<s, calls>>
              ELSE \E connectOk \in BOOLEAN :
                     \E r \in {ff_udp_set_remote_url(s, uri, connectOk)} :
                         /\ connectOk \/ r.calls # <<>>
                         /\ s' = r.s
                         /\ calls' = calls \o r.calls
                         /\ pc' = IF r.ret < 0 THEN "fail" ELSE "create"
    /\ UNCHANGED <<st, setting, dialog, platform, plan, uri, h, os, hist, rxq, ret>>

\* the local port left as the options set it
udp_open_local_port_keep(ctx, port, flags) == ctx

\* the local port taken from the URL whatever the session
udp_open_local_port_always(ctx, port, flags) == [ctx EXCEPT !.local_port = port]

\* lines 467-469: a session with read access binds the port of the URL when it
\* is multicast or has no local port yet
udp_open_local_port(ctx, port, flags) ==
    IF (ctx.is_multicast # 0 \/ ctx.local_port = 0) /\ "READ" \in flags
    THEN [ctx EXCEPT !.local_port = port] ELSE ctx

\* lines 467-471: the local port to bind, then udp_socket_create
udp_open_create ==
    /\ st = "Opening" /\ pc = "create"
    /\ LET ctx == udp_open_local_port(s, loc.port, h.flags)
           cands == udp_resolve_host(loc.localaddr, ctx.local_port,
                                     IF ctx.dest_addr.family # "AF_UNSPEC"
                                     THEN ctx.dest_addr.family ELSE "AF_UNSPEC",
                                     {"AI_PASSIVE"})
       IN  \E nfail \in 0..Len(cands) :
             \E r \in {udp_socket_create(ctx, loc.localaddr, nfail)} :
                 /\ s' = ctx
                 /\ loc' = [loc EXCEPT !.udp_fd = r.fd, !.my_addr = r.addr, !.len = r.len]
                 /\ calls' = calls \o r.calls
                 /\ os' = IF r.fd >= 0
                          THEN [os EXCEPT !.created = TRUE, !.family = r.addr.family]
                          ELSE os
                 /\ pc' = IF r.fd < 0 THEN "fail" ELSE "reuse"
    /\ UNCHANGED <<st, setting, dialog, platform, plan, uri, h, hist, rxq, ret>>

\* reuse for every multicast session, whatever the option says
udp_open_reuse_wanted_multicast(ctx, reuse_specified) ==
    ctx.reuse_socket # 0 \/ ctx.is_multicast # 0

\* line 476: the condition under which SO_REUSEADDR is set
udp_open_reuse_wanted(ctx, reuse_specified) ==
    ctx.reuse_socket # 0 \/ (ctx.is_multicast # 0 /\ reuse_specified = 0)

\* lines 473-480: SO_REUSEADDR when asked for, or for multicast unless told not to
udp_open_reuse ==
    /\ st = "Opening" /\ pc = "reuse"
    /\ IF udp_open_reuse_wanted(s, loc.reuse_specified)
       THEN \E ok \in BOOLEAN :
              /\ s' = [s EXCEPT !.reuse_socket = 1]
              /\ calls' = Append(calls, Call("SO_REUSEADDR", loc.udp_fd, NoAddr, NoAddr, 1, ok))
              /\ os' = IF ok THEN [os EXCEPT !.reuse = TRUE] ELSE os
              /\ pc' = IF ok THEN "bind" ELSE "fail"
       ELSE /\ pc' = "bind"
            /\ UNCHANGED <<s, calls, os>>
    /\ UNCHANGED <<st, setting, dialog, platform, plan, uri, h, loc, hist, rxq, ret>>

\* the binds of a session that tries the destination whenever it is multicast
udp_open_binds_any_access(ctx, flags, udp_fd, my_addr, len, mok, lok) ==
    LET first    == ctx.is_multicast # 0
        bind_ret == IF first /\ mok THEN 0 ELSE 0 - 1
        c1 == IF first THEN <<Call("bind", udp_fd, ctx.dest_addr, NoAddr, len, mok)>> ELSE <<>>
        c2 == IF bind_ret < 0 THEN <<Call("bind", udp_fd, my_addr, NoAddr, len, lok)>> ELSE <<>>
    IN  [bind_ret |-> bind_ret, calls |-> c1 \o c2, failed |-> bind_ret < 0 /\ ~lok]

\* lines 482-495: the destination is bound first when the session is multicast
\* and has no write access; the local address is bound when that bind was not
\* made or failed; open fails when the bind of the local address fails
udp_open_binds(ctx, flags, udp_fd, my_addr, len, mok, lok) ==
    LET first    == ctx.is_multicast # 0 /\ ~("WRITE" \in flags)
        bind_ret == IF first /\ mok THEN 0 ELSE 0 - 1
        c1 == IF first THEN <<Call("bind", udp_fd, ctx.dest_addr, NoAddr, len, mok)>> ELSE <<>>
        c2 == IF bind_ret < 0 THEN <<Call("bind", udp_fd, my_addr, NoAddr, len, lok)>> ELSE <<>>
    IN  [bind_ret |-> bind_ret, calls |-> c1 \o c2, failed |-> bind_ret < 0 /\ ~lok]

\* lines 482-495: bind the multicast address when reading only, else (or when
\* that fails) the local address
udp_open_bind ==
    /\ st = "Opening" /\ pc = "bind"
    /\ \E mok \in BOOLEAN, lok \in BOOLEAN :
         \E b \in {udp_open_binds(s, h.flags, loc.udp_fd, loc.my_addr, loc.len, mok, lok)} :
             /\ loc' = [loc EXCEPT !.bind_ret = b.bind_ret]
             /\ calls' = calls \o b.calls
             /\ os' = IF b.bind_ret = 0 THEN [os EXCEPT !.bound = OsBoundAddr(s.dest_addr)]
                      ELSE IF ~b.failed THEN [os EXCEPT !.bound = OsBoundAddr(loc.my_addr)]
                      ELSE os
             /\ pc' = IF b.failed THEN "fail" ELSE "port"
    /\ UNCHANGED <<st, setting, dialog, platform, plan, uri, h, s, hist, rxq, ret>>

\* lines 497-499: the port the OS reports for the bound socket
\* the result of getsockname is not looked at: when it fails my_addr is still
\* the address asked for and len is sizeof(my_addr).  The failures of the two
\* queries are explored in the sessions opened to be queried.
udp_open_port ==
    /\ st = "Opening" /\ pc = "port"
    /\ \E gsOk \in BOOLEAN, gniOk \in BOOLEAN :
         /\ plan # "query" => gsOk /\ gniOk
         /\ LET my_addr == IF gsOk THEN os.bound ELSE loc.my_addr
             len     == IF gsOk THEN AddrLen(os.bound) ELSE SizeofStorage
            IN  /\ loc' = [loc EXCEPT !.my_addr = my_addr, !.len = len]
                /\ s' = [s EXCEPT !.local_port = udp_port(my_addr, len, gniOk)]
                /\ calls' = calls \o
                     <<Call("getsockname", loc.udp_fd, my_addr, NoAddr, SizeofStorage, gsOk),
                       Call("getnameinfo", loc.udp_fd, my_addr, NoAddr, len, gniOk)>>
    /\ pc' = "ttl"
    /\ UNCHANGED <<st, setting, dialog, platform, plan, uri, h, os, hist, rxq, ret>>

\* lines 501-506: the multicast TTL of a session with write access
udp_open_ttl ==
    /\ st = "Opening" /\ pc = "ttl"
    /\ IF s.is_multicast # 0 /\ "WRITE" \in h.flags
       THEN \E ok \in BOOLEAN :
              LET r == udp_set_multicast_ttl(loc.udp_fd, s.ttl, s.dest_addr, ok)
              IN  /\ calls' = calls \o r.calls
                  /\ os' = IF r.ret = 0 /\ r.calls # <<>> THEN [os EXCEPT !.mttl = s.ttl] ELSE os
                  /\ pc' = IF r.ret < 0 THEN "fail" ELSE "join"
       ELSE /\ pc' = "join"
            /\ UNCHANGED <<calls, os>>
    /\ UNCHANGED <<st, setting, dialog, platform, plan, uri, h, s, loc, hist, rxq, ret>>

\* membership calls with the source filter issued before the plain join
udp_open_membership_filter_first(plat, udp_fd, ctx, sources, num_sources, include, jok, failAt) ==
    IF num_sources = 0 \/ include = 0
    THEN LET j == udp_join_multicast_group(udp_fd, ctx.dest_addr, jok)
             b == udp_set_multicast_sources(plat, udp_fd, ctx.dest_addr, ctx.dest_addr_len,
                                            sources, num_sources, 0, failAt)
         IN  IF num_sources # 0 /\ b.ret < 0 THEN b
             ELSE IF num_sources # 0 THEN [ret |-> j.ret, calls |-> b.calls \o j.calls]
             ELSE j
    ELSE udp_set_multicast_sources(plat, udp_fd, ctx.dest_addr, ctx.dest_addr_len,
                                   sources, num_sources, 1, failAt)

\* lines 507-524: the membership calls of a multicast session with read access
udp_open_membership(plat, udp_fd, ctx, sources, num_sources, include, jok, failAt) ==
    IF num_sources = 0 \/ include = 0
    THEN LET j == udp_join_multicast_group(udp_fd, ctx.dest_addr, jok)
             b == udp_set_multicast_sources(plat, udp_fd, ctx.dest_addr, ctx.dest_addr_len,
                                            sources, num_sources, 0, failAt)
         IN  IF j.ret < 0 THEN j
             ELSE IF num_sources # 0 THEN [ret |-> b.ret, calls |-> j.calls \o b.calls]
             ELSE j
    ELSE IF include # 0 /\ num_sources # 0
    THEN udp_set_multicast_sources(plat, udp_fd, ctx.dest_addr, ctx.dest_addr_len,
                                   sources, num_sources, 1, failAt)
    ELSE [ret |-> 0 - 1, calls |-> <<>>]

Groups(cs) == [i \in 1..Len(cs) |-> cs[i].addr]

GroupSources(cs) == [i \in 1..Len(cs) |-> <<cs[i].addr, cs[i].src>>]

OkSet(cs, name) ==
    {<<cs[i].addr, cs[i].src>> : i \in {k \in 1..Len(cs) : cs[k].call = name /\ cs[k].ok}}

udp_open_join ==
    /\ st = "Opening" /\ pc = "join"
    /\ IF s.is_multicast # 0 /\ "READ" \in h.flags
       THEN \E jok \in BOOLEAN, failAt \in 0..loc.num_sources :
              \E r \in {udp_open_membership(platform, loc.udp_fd, s, loc.sources,
                                              loc.num_sources, loc.include, jok, failAt)} :
                  /\ calls' = calls \o r.calls
                  /\ hist' = [hist EXCEPT
                                !.joins = @ \o Groups(Named(r.calls, "join")),
                                !.srcjoins = @ \o GroupSources(Named(r.calls, "join_source")),
                                !.blocks = @ \o GroupSources(Named(r.calls, "block_source"))]
                  /\ os' = [os EXCEPT
                              !.members = @ \cup OkSet(r.calls, "join")
                                            \cup OkSet(r.calls, "join_source"),
                              !.blocked = @ \cup OkSet(r.calls, "block_source")]
                  /\ pc' = IF r.ret < 0 THEN "fail" ELSE "bufsize"
       ELSE /\ pc' = "bufsize"
            /\ UNCHANGED <<calls, hist, os>>
    /\ UNCHANGED <<st, setting, dialog, platform, plan, uri, h, s, loc, rxq, ret>>

\* a buffer step that fails open for the receive buffer too
udp_open_bufsize_all_fatal ==
    /\ st = "Opening" /\ pc = "bufsize"
    /\ \E ok \in BOOLEAN :
         IF loc.is_output # 0
         THEN /\ calls' = Append(calls, Call("SO_SNDBUF", loc.udp_fd, NoAddr, NoAddr, s.buffer_size, ok))
              /\ os' = IF ok THEN [os EXCEPT !.sndbuf = s.buffer_size] ELSE os
              /\ pc' = IF ok THEN "connect" ELSE "fail"
         ELSE /\ calls' = calls \o
                    <<Call("SO_RCVBUF", loc.udp_fd, NoAddr, NoAddr, s.buffer_size, ok),
                      Call("nonblock", loc.udp_fd, NoAddr, NoAddr, 1, TRUE)>>
              /\ os' = [os EXCEPT !.rcvbuf = IF ok THEN s.buffer_size ELSE @,
                                  !.nonblock = TRUE]
              /\ pc' = IF ok THEN "connect" ELSE "fail"
    /\ UNCHANGED <<st, setting, dialog, platform, plan, uri, h, s, loc, hist, rxq, ret>>

\* lines 527-543: the send buffer of an output session (fatal), the receive
\* buffer of an input session (a warning) and its non-blocking mode
udp_open_bufsize ==
    /\ st = "Opening" /\ pc = "bufsize"
    /\ \E ok \in BOOLEAN :
         IF loc.is_output # 0
         THEN /\ calls' = Append(calls, Call("SO_SNDBUF", loc.udp_fd, NoAddr, NoAddr, s.buffer_size, ok))
              /\ os' = IF ok THEN [os EXCEPT !.sndbuf = s.buffer_size] ELSE os
              /\ pc' = IF ok THEN "connect" ELSE "fail"
         ELSE /\ calls' = calls \o
                    <<Call("SO_RCVBUF", loc.udp_fd, NoAddr, NoAddr, s.buffer_size, ok),
                      Call("nonblock", loc.udp_fd, NoAddr, NoAddr, 1, TRUE)>>
              /\ os' = [os EXCEPT !.rcvbuf = IF ok THEN s.buffer_size ELSE @,
                                  !.nonblock = TRUE]
              /\ pc' = "connect"
    /\ UNCHANGED <<st, setting, dialog, platform, plan, uri, h, s, loc, hist, rxq, ret>>

\* lines 544-549: the connect the option asked for
udp_open_connect ==
    /\ st = "Opening" /\ pc = "connect"
    /\ IF s.is_connected # 0
       THEN \E ok \in {FALSE, OsConnectOk(s.dest_addr, s.dest_addr_len)} :
              /\ calls' = Append(calls, Call("connect", loc.udp_fd, s.dest_addr, NoAddr,
                                             s.dest_addr_len, ok))
              /\ os' = IF ok THEN [os EXCEPT !.peer = s.dest_addr] ELSE os
              /\ pc' = IF ok THEN "done" ELSE "fail"
       ELSE /\ pc' = "done"
            /\ UNCHANGED <<calls, os>>
    /\ UNCHANGED <<st, setting, dialog, platform, plan, uri, h, s, loc, hist, rxq, ret>>

\* lines 551-555: the socket becomes the session's and open returns 0
udp_open_done ==
    /\ st = "Opening" /\ pc = "done"
    /\ s' = [s EXCEPT !.udp_fd = loc.udp_fd]
    /\ st' = "Open"
    /\ pc' = "idle"
    /\ loc' = InitLoc
    /\ ret' = Ret("open", uri, 0)
    /\ hist' = [hist EXCEPT !.url = uri, !.mcast = s.is_multicast]
    /\ uri' = NoUrl
    /\ UNCHANGED <<setting, dialog, platform, plan, h, os, calls, rxq>>

\* a fail label that returns without closing the socket
udp_open_fail_leak ==
    /\ st = "Opening" /\ pc = "fail"
    /\ st' = "Failed"
    /\ pc' = "idle"
    /\ loc' = InitLoc
    /\ ret' = Ret("open", uri, AVERROR("EIO"))
    /\ uri' = NoUrl
    /\ UNCHANGED <<setting, dialog, platform, plan, h, s, hist, rxq, calls, os>>

\* lines 556-561, the fail label: the socket, if one was created, is closed
udp_open_fail ==
    /\ st = "Opening" /\ pc = "fail"
    /\ IF loc.udp_fd >= 0
       THEN /\ calls' = Append(calls, Call("closesocket", loc.udp_fd, NoAddr, NoAddr, 0, TRUE))
            /\ os' = [os EXCEPT !.closes = @ + 1, !.members = {}, !.blocked = {}]
       ELSE UNCHANGED <<calls, os>>
    /\ st' = "Failed"
    /\ pc' = "idle"
    /\ loc' = InitLoc
    /\ ret' = Ret("open", uri, AVERROR("EIO"))
    /\ uri' = NoUrl
    /\ UNCHANGED <<setting, dialog, platform, plan, h, s, hist, rxq>>

(***************************************************************************)
(* The operations on an open session.                                      *)
(***************************************************************************)
\* ff_udp_set_remote_url(h, u) called on the open session
set_remote_url ==
    /\ st = "Open" /\ plan = "remote"
    /\ \E u \in RemoteUrls, connectOk \in BOOLEAN :
         \E r \in {ff_udp_set_remote_url(s, u, connectOk)} :
             /\ connectOk \/ r.calls # <<>>
             /\ s' = r.s
             /\ calls' = r.calls
             /\ os' = IF r.calls # <<>> /\ r.calls[1].ok /\ r.calls[1].fd = SockFd
                      THEN [os EXCEPT !.peer = r.calls[1].addr] ELSE os
             /\ ret' = [Ret("set_remote", u, r.ret) EXCEPT
                           !.again = (ret.op = "set_remote" /\ ret.arg = u)]
             /\ hist' = [hist EXCEPT !.remoted = TRUE,
                                     !.cfail = @ \/ (r.calls # <<>> /\ ~r.calls[1].ok)]
    /\ UNCHANGED <<st, pc, setting, dialog, platform, plan, uri, h, loc, rxq>>

\* a close that releases the socket before it leaves the group
udp_close_release_first ==
    /\ st = "Open"
    /\ \E ok \in BOOLEAN :
         LET l == IF s.is_multicast # 0 /\ "READ" \in h.flags
                  THEN udp_leave_multicast_group(s.udp_fd, s.dest_addr, ok)
                  ELSE [ret |-> 0, calls |-> <<>>]
         IN  /\ calls' = <<Call("closesocket", s.udp_fd, NoAddr, NoAddr, 0, TRUE)>> \o l.calls
             /\ hist' = [hist EXCEPT !.leaves = @ \o Groups(l.calls)]
             /\ os' = [os EXCEPT !.closes = @ + 1, !.members = {}, !.blocked = {}]
    /\ st' = "Closed"
    /\ ret' = Ret("close", NoUrl, 0)
    /\ rxq' = <<>>
    /\ UNCHANGED <<pc, setting, dialog, platform, plan, uri, h, s, loc>>

\* udp_close: leave the group if multicast and open for reading, then close
udp_close ==
    /\ st = "Open"
    /\ \E ok \in BOOLEAN :
         LET l == IF s.is_multicast # 0 /\ "READ" \in h.flags
                  THEN udp_leave_multicast_group(s.udp_fd, s.dest_addr, ok)
                  ELSE [ret |-> 0, calls |-> <<>>]
         IN  /\ calls' = l.calls \o <<Call("closesocket", s.udp_fd, NoAddr, NoAddr, 0, TRUE)>>
             /\ hist' = [hist EXCEPT !.leaves = @ \o Groups(l.calls)]
             /\ os' = [os EXCEPT !.closes = @ + 1, !.members = {}, !.blocked = {}]
    /\ st' = "Closed"
    /\ ret' = Ret("close", NoUrl, 0)
    /\ rxq' = <<>>
    /\ UNCHANGED <<pc, setting, dialog, platform, plan, uri, h, s, loc>>

\* ff_network_wait_fd(fd, write): 0 when the descriptor is ready, AVERROR(EAGAIN)
\* when the poll times out, the error of poll when it fails
ff_network_wait_fd(ready, pollOk) ==
    IF ~pollOk THEN AVERROR("EINTR")
    ELSE IF ready THEN 0
    ELSE AVERROR("EAGAIN")

\* udp_read that receives whatever the readiness wait returned
udp_read_result_recv_anyway(ctx, flags, nonblock, queue, size, pollOk, recvOk) ==
    LET w  == ff_network_wait_fd(queue # <<>>, pollOk)
        wc == <<Call("wait_fd", ctx.udp_fd, NoAddr, NoAddr, 0, w = 0)>>
        got == IF queue # <<>> /\ recvOk THEN Take(queue[1], size) ELSE <<>>
        rc == DataCall("recv", ctx.udp_fd, NoAddr, size, queue # <<>> /\ recvOk, got)
        r  == IF queue = <<>> THEN AVERROR("EAGAIN")
              ELSE IF ~recvOk THEN AVERROR("ECONNREFUSED")
              ELSE Len(got)
    IN  [ret |-> r, data |-> got,
         calls |-> (IF ~("NONBLOCK" \in flags) THEN wc ELSE <<>>) \o <<rc>>,
         queue |-> IF queue # <<>> /\ recvOk THEN Tail(queue) ELSE queue]

\* udp_read that reports an empty queue as a read of 0 bytes
udp_read_result_empty_is_zero(ctx, flags, nonblock, queue, size, pollOk, recvOk) ==
    LET w  == ff_network_wait_fd(queue # <<>>, pollOk)
        wc == <<Call("wait_fd", ctx.udp_fd, NoAddr, NoAddr, 0, w = 0)>>
        got == IF queue # <<>> /\ recvOk THEN Take(queue[1], size) ELSE <<>>
        rc == DataCall("recv", ctx.udp_fd, NoAddr, size, queue # <<>> /\ recvOk, got)
        r  == IF queue = <<>> THEN 0
              ELSE IF ~recvOk THEN AVERROR("ECONNREFUSED")
              ELSE Len(got)
    IN  IF ~("NONBLOCK" \in flags) /\ w < 0
        THEN [ret |-> w, data |-> <<>>, calls |-> wc, queue |-> queue]
        ELSE [ret |-> r, data |-> got,
              calls |-> (IF ~("NONBLOCK" \in flags) THEN wc ELSE <<>>) \o <<rc>>,
              queue |-> IF queue # <<>> /\ recvOk THEN Tail(queue) ELSE queue]

\* udp_read over a byte stream: the bytes of a datagram that do not fit the
\* buffer stay queued for the next read
udp_read_result_stream(ctx, flags, nonblock, queue, size, pollOk, recvOk) ==
    LET w  == ff_network_wait_fd(queue # <<>>, pollOk)
        wc == <<Call("wait_fd", ctx.udp_fd, NoAddr, NoAddr, 0, w = 0)>>
        got == IF queue # <<>> /\ recvOk THEN Take(queue[1], size) ELSE <<>>
        rest == IF queue # <<>> THEN Drop(queue[1], size) ELSE <<>>
        rc == DataCall("recv", ctx.udp_fd, NoAddr, size, queue # <<>> /\ recvOk, got)
        r  == IF queue = <<>> THEN AVERROR("EAGAIN")
              ELSE IF ~recvOk THEN AVERROR("ECONNREFUSED")
              ELSE Len(got)
    IN  IF ~("NONBLOCK" \in flags) /\ w < 0
        THEN [ret |-> w, data |-> <<>>, calls |-> wc, queue |-> queue]
        ELSE [ret |-> r, data |-> got,
              calls |-> (IF ~("NONBLOCK" \in flags) THEN wc ELSE <<>>) \o <<rc>>,
              queue |-> IF queue # <<>> /\ recvOk
                        THEN (IF rest = <<>> THEN <<>> ELSE <<rest>>) \o Tail(queue)
                        ELSE queue]

\* udp_read(h, buf, size); pollOk and recvOk are the environment's outcomes.
\* recv on an empty queue returns EAGAIN on a non-blocking socket.
udp_read_result(ctx, flags, nonblock, queue, size, pollOk, recvOk) ==
    LET w  == ff_network_wait_fd(queue # <<>>, pollOk)
        wc == <<Call("wait_fd", ctx.udp_fd, NoAddr, NoAddr, 0, w = 0)>>
        got == IF queue # <<>> /\ recvOk THEN Take(queue[1], size) ELSE <<>>
        rc == DataCall("recv", ctx.udp_fd, NoAddr, size, queue # <<>> /\ recvOk, got)
        r  == IF queue = <<>> THEN AVERROR("EAGAIN")
              ELSE IF ~recvOk THEN AVERROR("ECONNREFUSED")
              ELSE Len(got)
    IN  IF ~("NONBLOCK" \in flags) /\ w < 0
        THEN [ret |-> w, data |-> <<>>, calls |-> wc, queue |-> queue]
        ELSE [ret |-> r, data |-> got,
              calls |-> (IF ~("NONBLOCK" \in flags) THEN wc ELSE <<>>) \o <<rc>>,
              queue |-> IF queue # <<>> /\ recvOk THEN Tail(queue) ELSE queue]

udp_read ==
    /\ st = "Open" /\ plan = "use"
    /\ \E size \in ReadSizes, pollOk \in BOOLEAN, recvOk \in BOOLEAN :
         \E r \in {udp_read_result(s, h.flags, os.nonblock, rxq, size, pollOk, recvOk)} :
             \* an outcome is chosen only for a call that is issued
             /\ pollOk \/ ~("NONBLOCK" \in h.flags)
             /\ recvOk \/ (rxq # <<>> /\ r.calls[Len(r.calls)].call = "recv")
             \* recv on a blocking socket with nothing queued does not return
             /\ ~(rxq = <<>> /\ ~os.nonblock /\ r.calls[Len(r.calls)].call = "recv")
             /\ calls' = r.calls
             /\ rxq' = r.queue
             /\ ret' = DataRet("read", r.ret, r.data)
    /\ UNCHANGED <<st, pc, setting, dialog, platform, plan, uri, h, s, loc, os, hist>>

\* the OS sends to an explicit address only when it is a whole address
OsSendtoOk(addr, addr_len) == addr.family # "AF_UNSPEC" /\ addr_len = AddrLen(addr)

\* udp_write with the explicit-address send whatever is_connected says
udp_write_result_sendto(ctx, flags, buf, pollOk, sendOk) ==
    LET w  == ff_network_wait_fd(TRUE, pollOk)
        wc == <<Call("wait_fd", ctx.udp_fd, NoAddr, NoAddr, 1, w = 0)>>
        ok == sendOk /\ OsSendtoOk(ctx.dest_addr, ctx.dest_addr_len)
        sc == DataCall("sendto", ctx.udp_fd, ctx.dest_addr, ctx.dest_addr_len, ok, buf)
    IN  IF ~("NONBLOCK" \in flags) /\ w < 0
        THEN [ret |-> w, calls |-> wc]
        ELSE [ret |-> IF ok THEN Len(buf) ELSE AVERROR("ECONNREFUSED"),
              calls |-> (IF ~("NONBLOCK" \in flags) THEN wc ELSE <<>>) \o <<sc>>]

\* udp_write(h, buf, size): sendto the destination when not connected, send otherwise
udp_write_result(ctx, flags, buf, pollOk, sendOk) ==
    LET w  == ff_network_wait_fd(TRUE, pollOk)
        wc == <<Call("wait_fd", ctx.udp_fd, NoAddr, NoAddr, 1, w = 0)>>
        ok == IF ctx.is_connected = 0
              THEN sendOk /\ OsSendtoOk(ctx.dest_addr, ctx.dest_addr_len)
              ELSE sendOk
        sc == IF ctx.is_connected = 0
              THEN DataCall("sendto", ctx.udp_fd, ctx.dest_addr, ctx.dest_addr_len, ok, buf)
              ELSE DataCall("send", ctx.udp_fd, NoAddr, 0, ok, buf)
    IN  IF ~("NONBLOCK" \in flags) /\ w < 0
        THEN [ret |-> w, calls |-> wc]
        ELSE [ret |-> IF ok THEN Len(buf) ELSE AVERROR("ECONNREFUSED"),
              calls |-> (IF ~("NONBLOCK" \in flags) THEN wc ELSE <<>>) \o <<sc>>]

\* a write that gives the socket up when it fails
udp_write_close_on_error ==
    /\ st = "Open" /\ plan \in {"use", "remote"}
    /\ \E buf \in Payloads, pollOk \in BOOLEAN, sendOk \in BOOLEAN :
         \E r \in {udp_write_result(s, h.flags, buf, pollOk, sendOk)} :
             /\ pollOk \/ ~("NONBLOCK" \in h.flags)
             /\ sendOk \/ r.calls[Len(r.calls)].call # "wait_fd"
             /\ calls' = r.calls
             /\ ret' = DataRet("write", r.ret, buf)
             /\ st' = IF r.ret < 0 THEN "Closed" ELSE st
             /\ os' = IF r.ret < 0 THEN [os EXCEPT !.closes = @ + 1] ELSE os
    /\ UNCHANGED <<pc, setting, dialog, platform, plan, uri, h, s, loc, hist, rxq>>

udp_write ==
    /\ st = "Open" /\ plan \in {"use", "remote"}
    /\ \E buf \in Payloads, pollOk \in BOOLEAN, sendOk \in BOOLEAN :
         \E r \in {udp_write_result(s, h.flags, buf, pollOk, sendOk)} :
             /\ pollOk \/ ~("NONBLOCK" \in h.flags)
             /\ sendOk \/ r.calls[Len(r.calls)].call # "wait_fd"
             /\ calls' = r.calls
             /\ ret' = DataRet("write", r.ret, buf)
    /\ UNCHANGED <<st, pc, setting, dialog, platform, plan, uri, h, s, loc, os, hist, rxq>>

\* the two getters of an open session
get_local_port ==
    /\ st = "Open"
    /\ ret' = Ret("get_local_port", NoUrl, ff_udp_get_local_port(s))
    /\ calls' = <<>>
    /\ UNCHANGED <<st, pc, setting, dialog, platform, plan, uri, h, s, loc, os, hist, rxq>>

get_file_handle ==
    /\ st = "Open"
    /\ ret' = Ret("get_file_handle", NoUrl, udp_get_file_handle(s))
    /\ calls' = <<>>
    /\ UNCHANGED <<st, pc, setting, dialog, platform, plan, uri, h, s, loc, os, hist, rxq>>

\* a datagram arrives for the bound socket
deliver ==
    /\ st = "Open" /\ plan = "use"
    /\ Len(rxq) < MaxQueue
    /\ \E p \in Datagrams : rxq' = Append(rxq, p)
    /\ UNCHANGED <<st, pc, setting, dialog, platform, plan, uri, h, s, loc, os, calls, hist, ret>>

Next ==
    \/ udp_open_parse
    \/ udp_open_dest
    \/ udp_open_create
    \/ udp_open_reuse
    \/ udp_open_bind
    \/ udp_open_port
    \/ udp_open_ttl
    \/ udp_open_join
    \/ udp_open_bufsize
    \/ udp_open_connect
    \/ udp_open_done
    \/ udp_open_fail
    \/ set_remote_url
    \/ udp_read
    \/ udp_write
    \/ get_local_port
    \/ get_file_handle
    \/ deliver
    \/ udp_close

Spec == Init /\ [][Next]_vars

(***************************************************************************)
(* The properties checked.                                                 *)
(***************************************************************************)
HasTag(u, tag) == u.hasq /\ FindPair(u.query, tag, 1) # 0

\* the value of the first pair named tag, as written in the URL
TagValue(u, tag) == u.query[FindPair(u.query, tag, 1)].val

\* a setRemote request with connect enabled
ConnectEnabled(u) == HasTag(u, "connect") /\ strtol(TagValue(u, "connect")).val # 0

\* a step that completes a setRemote call: of the steps of an open session
\* only the arrival of a datagram also leaves ret a setRemote result
SetRemoteStep == st = "Open" /\ ret'.op = "set_remote" /\ rxq' = rxq

\* the address a host name stands for, NoAddr when it stands for none
NamedAddr(name) == IF Resolvable(name) THEN HostAddr(name) ELSE NoAddr

\* the hosts a sources value names: its text between the commas
NamedHosts(u) == SplitAt(TagValue(u, "sources"), ",")

\* C1: when open has failed, on whichever path, a socket created during the
\* call has been closed exactly once, by the last OS call before the error is
\* returned, no socket is closed when none was created, and at no time before
\* open succeeds does the session hold the created descriptor as udp_fd.
C1_FailedOpenReleasesSocket ==
    /\ st \in {"Init", "Opening", "Failed"} => s.udp_fd # SockFd
    /\ st = "Failed" =>
         /\ ret.op = "open" /\ ret.val < 0
         /\ os.closes = (IF os.created THEN 1 ELSE 0)
         /\ Len(Named(calls, "closesocket")) = os.closes
         /\ os.created =>
              /\ calls[Len(calls)].call = "closesocket"
              /\ calls[Len(calls)].fd = SockFd

\* C1 witness: open failed at its last step, the connect, after the socket
\* was created, bound and joined, and the socket is closed.
C1_Witness ==
    /\ st = "Failed" /\ os.created /\ os.closes = 1
    /\ Named(calls, "connect") # <<>>
    /\ Named(calls, "join") # <<>>

C3_LeaveMatchesJoin ==
    st = "Closed" =>
        IF hist.joins # <<>> THEN hist.leaves = <<hist.joins[1]>>
        ELSE IF hist.srcjoins # <<>> THEN hist.leaves = <<hist.srcjoins[1][1]>>
        ELSE hist.leaves = <<>>

\* C4 as written: in every state of the open session is_multicast has the
\* value it had when open returned.
C4_IsMulticastFixed == st = "Open" => s.is_multicast = hist.mcast

\* C5 as written: no step of an open session whose socket the OS has
\* connected changes the stored destination address or its length.
C5_DestinationFixed ==
    [][(st = "Open" /\ st' = "Open" /\ os.peer # NoAddr) =>
          (s'.dest_addr = s.dest_addr /\ s'.dest_addr_len = s.dest_addr_len)]_vars

\* C6 as written: in every state of the open session is_connected is set
\* exactly when the OS has connected the socket, and a write made while the
\* socket is connected does not use sendto.
C6_ConnectedIffOsConnected ==
    st = "Open" =>
        /\ (s.is_connected # 0) <=> (os.peer # NoAddr)
        /\ (ret.op = "write" /\ os.peer # NoAddr) =>
              \A i \in 1..Len(calls) : calls[i].call # "sendto"

\* C7 as written: a setRemote call with connect enabled on a session whose
\* is_connected is set issues no connect call and leaves dest_addr,
\* dest_addr_len, is_multicast, is_connected and udp_fd as they were.
C7_ConnectWhenConnectedIsNoOp ==
    [][(SetRemoteStep /\ s.is_connected # 0 /\ ConnectEnabled(ret'.arg)) =>
          /\ \A i \in 1..Len(calls') : calls'[i].call # "connect"
          /\ s'.dest_addr = s.dest_addr
          /\ s'.dest_addr_len = s.dest_addr_len
          /\ s'.is_multicast = s.is_multicast
          /\ s'.is_connected = s.is_connected
          /\ s'.udp_fd = s.udp_fd]_vars

\* C8: a setRemote call with connect enabled and a host that resolves, on
\* an open session whose is_connected is clear, issues exactly one connect
\* call on the session's socket, also when an earlier one failed; when that
\* call fails the request returns an error, the session stays open with
\* is_connected clear, and its socket is neither closed nor connected anew.
C8_FailedConnectKeepsSessionOpen ==
    [][(SetRemoteStep /\ s.is_connected = 0 /\ ConnectEnabled(ret'.arg)
          /\ Resolvable(ret'.arg.host)) =>
          /\ Len(calls') = 1
          /\ calls'[1].call = "connect"
          /\ calls'[1].fd = s.udp_fd
          /\ calls'[1].addr = s'.dest_addr
          /\ ~calls'[1].ok =>
                /\ ret'.val < 0
                /\ st' = "Open"
                /\ s'.is_connected = 0
                /\ s'.udp_fd = s.udp_fd
                /\ os'.closes = 0
                /\ os'.peer = os.peer
          /\ calls'[1].ok => (ret'.val = 0 /\ s'.is_connected # 0)]_vars

\* C8 witness: after an earlier connect request failed, a later one issued
\* the connect call again and it succeeded.
C8_Witness ==
    /\ st = "Open" /\ hist.cfail /\ ret.op = "set_remote"
    /\ Len(calls) = 1 /\ calls[1].call = "connect" /\ calls[1].ok
    /\ s.is_connected # 0

\* a session opened for reading on a multicast destination with a sources
\* list that names hosts only (no empty name)
C9_Case ==
    /\ st = "Open" /\ hist.mcast # 0 /\ "READ" \in h.flags
    /\ HasTag(hist.url, "sources")
    /\ \A i \in 1..Len(NamedHosts(hist.url)) : NamedHosts(hist.url)[i] # <<>>

\* open issued no plain join and one source join per named host, in order
C9_Calls ==
    /\ hist.joins = <<>>
    /\ Len(hist.srcjoins) = Len(NamedHosts(hist.url))
    /\ \A i \in 1..Len(hist.srcjoins) :
         /\ i <= Len(NamedHosts(hist.url))
         /\ hist.srcjoins[i][2] = NamedAddr(NamedHosts(hist.url)[i])

\* C9 as written: for every number k >= 1 of hosts a sources list names, a
\* successful open for reading on a multicast destination issued exactly k
\* source joins, one per named host, and no plain join.
C9_OneSourceJoinPerHost == C9_Case => C9_Calls

\* C9 amended: the same for a sources value of at most 255 characters that
\* names at most 32 hosts.
C9_OneSourceJoinPerHostBounded ==
    (/\ C9_Case
     /\ Len(TagValue(hist.url, "sources")) <= OpenBufSize - 1
     /\ Len(NamedHosts(hist.url)) <= SourcesElems) => C9_Calls

\* C9 witness: an open session whose sources list named two hosts and whose
\* open issued two source joins.
C9_Witness ==
    /\ C9_Case
    /\ Len(NamedHosts(hist.url)) = 2
    /\ Len(hist.srcjoins) = 2

\* C10 as written: an open for reading on a multicast destination with the
\* sources option present and its value empty has failed, and has issued no
\* source join.
C10_EmptySourcesRejected ==
    (/\ st \in {"Open", "Failed"} /\ ret.op = "open"
     /\ s.is_multicast # 0 /\ "READ" \in h.flags
     /\ HasTag(ret.arg, "sources") /\ TagValue(ret.arg, "sources") = <<>>) =>
        (st = "Failed" /\ Named(calls, "join_source") = <<>>)

\* the hosts a block value names: its text between the commas
BlockedHosts(u) == SplitAt(TagValue(u, "block"), ",")

\* the calls of the open in progress or just returned
OpenCalls == IF st = "Opening" \/ ret.op = "open" THEN calls ELSE <<>>

\* every block-source call of an open follows a successful plain join of the
\* same group
C11_JoinBeforeBlock ==
    \A i \in 1..Len(OpenCalls) :
        OpenCalls[i].call = "block_source" =>
            \E j \in 1..(i - 1) :
                /\ OpenCalls[j].call = "join" /\ OpenCalls[j].ok
                /\ OpenCalls[j].addr = OpenCalls[i].addr

\* a session just opened for reading on a multicast destination with a
\* block list that names hosts only, and no sources option
C11_Case ==
    /\ st = "Open" /\ ret.op = "open" /\ hist.mcast # 0 /\ "READ" \in h.flags
    /\ HasTag(hist.url, "block") /\ ~HasTag(hist.url, "sources")
    /\ \A i \in 1..Len(BlockedHosts(hist.url)) : BlockedHosts(hist.url)[i] # <<>>

\* open issued one plain join and then one block-source call per named host
C11_Calls ==
    /\ Len(Named(calls, "join")) = 1
    /\ Named(calls, "join_source") = <<>>
    /\ Len(Named(calls, "block_source")) = Len(BlockedHosts(hist.url))
    /\ \A i \in 1..Len(Named(calls, "block_source")) :
         /\ i <= Len(BlockedHosts(hist.url))
         /\ Named(calls, "block_source")[i].src = NamedAddr(BlockedHosts(hist.url)[i])

\* C11 as written: with a block list and no sources, no block-source call
\* precedes the plain join, each follows a successful plain join, and a
\* successful open issued one block-source call per named host.
C11_BlockAfterJoin == C11_JoinBeforeBlock /\ (C11_Case => C11_Calls)

\* C11 amended: the same, the count of block-source calls being claimed for
\* a block value of at most 255 characters that names at most 32 hosts.
C11_BlockAfterJoinBounded ==
    /\ C11_JoinBeforeBlock
    /\ (/\ C11_Case
        /\ Len(TagValue(hist.url, "block")) <= OpenBufSize - 1
        /\ Len(BlockedHosts(hist.url)) <= SourcesElems) => C11_Calls

\* C11 witness: a successful open whose block list named two hosts issued
\* the plain join and then two block-source calls.
C11_Witness ==
    /\ C11_Case
    /\ Len(BlockedHosts(hist.url)) = 2
    /\ Len(Named(calls, "block_source")) = 2

\* the port the OS reports for the bound socket
OsPort == os.bound.port

\* C12: in every open session the local port the getter returns is the
\* non-zero port the OS reports for the bound socket.
C12_LocalPortIsOsPort ==
    st = "Open" =>
        /\ ff_udp_get_local_port(s) # 0
        /\ ff_udp_get_local_port(s) = OsPort
        /\ (ret.op = "get_local_port" => ret.val = OsPort /\ ret.val # 0)

\* the value of the localport option of a URL, 0 without the option
LocalPortOption(u) ==
    IF HasTag(u, "localport") THEN strtol(TagValue(u, "localport")).val ELSE 0

\* the port open asks the OS to bind: the port of the URL for a session with
\* read access that is multicast or has no local port, else the option
RequestedLocalPort(u, flags, mcast) ==
    IF (mcast # 0 \/ LocalPortOption(u) = 0) /\ "READ" \in flags
    THEN u.port ELSE LocalPortOption(u)

\* the steps of open up to the query that follows the bind
BeforePortQuery == st = "Opening" /\ pc \in {"parse", "dest", "create", "reuse", "bind", "port"}

\* C13 as written: until the post-bind query of the OS has run, the local
\* port of the session is 0.
C13_LocalPortZeroBeforeBind == (st = "Init" \/ BeforePortQuery) => s.local_port = 0

\* C13 amended: the local port is 0 until open reads its options; from then
\* on it is the value of the localport option (0 without it); from the
\* creation of the socket until the post-bind query it is the port open
\* asks the OS to bind.
C13_LocalPortBeforeBind ==
    /\ (st = "Init" \/ (st = "Opening" /\ pc = "parse")) => s.local_port = 0
    /\ (st = "Opening" /\ pc \in {"dest", "create"}) => s.local_port = LocalPortOption(uri)
    /\ (st = "Opening" /\ pc \in {"reuse", "bind", "port"}) =>
           s.local_port = RequestedLocalPort(uri, h.flags, s.is_multicast)

\* C13 witness: a session about to bind whose local port is already the
\* non-zero value of its localport option.
C13_Witness ==
    /\ st = "Opening" /\ pc = "bind"
    /\ HasTag(uri, "localport") /\ s.local_port = LocalPortOption(uri) /\ s.local_port # 0

\* the local address open hands to bind, between the creation of the socket
\* and the post-bind query
LocalBindCase == st = "Opening" /\ pc \in {"reuse", "bind", "port"}

\* the bind calls of the open in progress that name the local address
LocalBinds == SelectSeq(Named(calls, "bind"), LAMBDA c : c.addr = loc.my_addr)

\* the port a service number stands for: udp_resolve_host resolves "0" for a
\* port that is not positive
ServicePort(p) == IF p > 0 THEN p ELSE 0

\* C14 as written: the port of the local bind is the value of the localport
\* option when it is given and 0 when it is not.
C14_BindPortIsLocalPortOption ==
    LocalBindCase => loc.my_addr.port = ServicePort(LocalPortOption(uri))

\* C14 amended: the port of the local bind is the URL port for a session with
\* read access that is multicast or has no non-zero localport option, and the
\* value of the localport option otherwise; a value that is not positive asks
\* for an OS-chosen port (0).  Every bind call names that address or, for a
\* multicast session without write access, the destination.
C14_BindPort ==
    LocalBindCase =>
        /\ loc.my_addr.port = ServicePort(RequestedLocalPort(uri, h.flags, s.is_multicast))
        /\ \A i \in 1..Len(Named(calls, "bind")) :
             \/ Named(calls, "bind")[i].addr = loc.my_addr
             \/ /\ Named(calls, "bind")[i].addr = s.dest_addr
                /\ s.is_multicast # 0 /\ ~("WRITE" \in h.flags)

\* C14 witness: a session with read access and no localport option has bound
\* its local address with the port of the URL.
C14_Witness ==
    /\ LocalBindCase /\ pc = "port"
    /\ "READ" \in h.flags /\ ~HasTag(uri, "localport") /\ uri.port = 5004
    /\ LocalBinds # <<>> /\ LocalBinds[Len(LocalBinds)].ok
    /\ loc.my_addr.port = 5004

\* the URL of the open in progress or of the open that made the session
OpenUrl == IF st = "Opening" THEN uri ELSE hist.url

\* whether the destination of that open is multicast
OpenMulticast == IF st = "Opening" THEN s.is_multicast # 0 ELSE hist.mcast # 0

\* reuse explicitly requested: a bare reuse option or a non-zero value
ReuseRequested(u) ==
    /\ HasTag(u, "reuse")
    /\ (TagValue(u, "reuse") = <<>> \/ strtol(TagValue(u, "reuse")).val # 0)

\* an open past its reuse step that has not failed, or the session it made
PastReuseStep ==
    \/ st = "Opening" /\ pc \in {"bind", "port", "ttl", "join", "bufsize", "connect", "done"}
    \/ st = "Open"

\* C15: once open is past its reuse step the socket has address reuse enabled
\* if and only if reuse was requested (a bare reuse option or a non-zero
\* value) or the destination is multicast and no reuse option was given.
C15_ReusePolicy ==
    PastReuseStep =>
        (os.reuse <=> (ReuseRequested(OpenUrl) \/ (OpenMulticast /\ ~HasTag(OpenUrl, "reuse"))))

\* C15 witness: a session opened on a multicast destination with reuse=0 has
\* a socket without address reuse.
C15_Witness ==
    /\ st = "Open" /\ hist.mcast # 0
    /\ HasTag(hist.url, "reuse") /\ TagValue(hist.url, "reuse") = <<"0">>
    /\ ~os.reuse

\* the bind calls of the open in progress
Binds == Named(calls, "bind")

\* the bind step of open has just run: open is about to query the port, or
\* is at its fail label with a bind as its last call
AfterBindStep ==
    /\ st = "Opening" /\ calls # <<>>
    /\ pc = "port" \/ (pc = "fail" /\ calls[Len(calls)].call = "bind")

\* the destination is multicast and write access was not requested
DestinationBindCase == s.is_multicast # 0 /\ ~("WRITE" \in h.flags)

\* C16: the destination is bound first if and only if it is multicast and
\* write access was not requested; the locally resolved address is bound if
\* and only if that first bind was not attempted or failed; open fails at the
\* bind step exactly when the last attempted bind fails.
C16_BindPolicy ==
    AfterBindStep =>
        /\ Binds # <<>> /\ Len(Binds) <= 2
        /\ Binds[1].addr = (IF DestinationBindCase THEN s.dest_addr ELSE loc.my_addr)
        /\ Len(Binds) = 2 <=> (DestinationBindCase /\ ~Binds[1].ok)
        /\ Len(Binds) = 2 => Binds[2].addr = loc.my_addr
        /\ pc = "fail" <=> ~Binds[Len(Binds)].ok

\* C16 witness: the bind of the multicast destination failed, the bind of the
\* local address succeeded, and open goes on.
C16_Witness ==
    /\ AfterBindStep /\ pc = "port" /\ DestinationBindCase
    /\ Len(Binds) = 2 /\ ~Binds[1].ok /\ Binds[2].ok
    /\ Binds[1].addr = s.dest_addr /\ Binds[2].addr = loc.my_addr

\* the send calls of the last operation
Sends == SelectSeq(calls, LAMBDA c : c.call \in {"sendto", "send"})

\* a write call has just returned
WriteReturned == st = "Open" /\ ret.op = "write"

\* the one send call of a write: the whole buffer, to the stored destination
\* with sendto when is_connected is 0, with send and no address otherwise
OneSend ==
    /\ Len(Sends) = 1
    /\ Sends[1].data = ret.data
    /\ Sends[1].fd = s.udp_fd
    /\ IF s.is_connected = 0
       THEN /\ Sends[1].call = "sendto"
            /\ Sends[1].addr = s.dest_addr /\ Sends[1].n = s.dest_addr_len
       ELSE /\ Sends[1].call = "send" /\ Sends[1].addr = NoAddr

\* the readiness wait of the last operation was made and failed
WaitFailed == calls # <<>> /\ calls[1].call = "wait_fd" /\ ~calls[1].ok

\* C17 as written: every write call issues exactly one send call, carrying
\* the whole buffer: sendto the stored destination when the session is not
\* connected, send when it is.
C17_EveryWriteSendsOnce == WriteReturned => OneSend

\* C17 amended: a write call whose readiness wait fails issues no send call;
\* every other write call issues exactly one send call carrying the whole
\* buffer, sendto the stored destination when is_connected is 0 and send
\* otherwise, and returns the length of the buffer exactly when that call
\* succeeds.
C17_WriteSendsOnce ==
    WriteReturned =>
        IF WaitFailed THEN Sends = <<>> /\ ret.val < 0
        ELSE OneSend /\ (ret.val = Len(ret.data) <=> Sends[1].ok)

\* C17 witness: a write on a connected session issued one connected send
\* that carried the buffer.
C17_Witness ==
    /\ WriteReturned /\ s.is_connected # 0
    /\ Len(Sends) = 1 /\ Sends[1].call = "send" /\ Sends[1].ok
    /\ ret.val = Len(ret.data)

\* a step that completes a read or a write: the arrival of a datagram also
\* leaves ret the result of the last call, but makes the queue longer
IoStep == st = "Open" /\ ret'.op \in {"read", "write"} /\ Len(rxq') <= Len(rxq)

\* the errors ff_network_wait_fd returns
WaitErrors == {AVERROR("EINTR"), AVERROR("EAGAIN")}

\* C18: in a session opened without the non-blocking flag a read or a write
\* starts with the readiness wait; its receive or send follows only a wait
\* that succeeded; when the wait fails the call returns the error of the
\* wait, issues no receive or send, hands back no data and leaves the queue
\* of pending datagrams as it was.
C18_WaitBeforeIo ==
    [][(IoStep /\ ~("NONBLOCK" \in h.flags)) =>
          /\ calls' # <<>> /\ calls'[1].call = "wait_fd"
          /\ \A i \in 1..Len(calls') :
               calls'[i].call \in {"recv", "send", "sendto"} => i > 1 /\ calls'[1].ok
          /\ ~calls'[1].ok =>
               /\ Len(calls') = 1
               /\ ret'.val \in WaitErrors
               /\ rxq' = rxq
               /\ (ret'.op = "read" => ret'.data = <<>>)
          /\ calls'[1].ok => Len(calls') = 2]_vars

\* C18 witness: a read on a blocking session returned the error of its wait
\* with a datagram still pending and no receive issued.
C18_Witness ==
    /\ st = "Open" /\ ret.op = "read" /\ ~("NONBLOCK" \in h.flags)
    /\ WaitFailed /\ Len(calls) = 1 /\ rxq # <<>> /\ ret.val \in WaitErrors

\* a step that completes a read
ReadStep == IoStep /\ ret'.op = "read"

\* the errors a receive or a send fails with, and the error of an
\* interrupted wait
IoErrors == {AVERROR("ECONNREFUSED"), AVERROR("EINTR"), AVERROR("EIO")}

\* C19: a read on a session opened for reading with the non-blocking flag,
\* with no datagram pending, returns AVERROR(EAGAIN), which is none of the
\* I/O errors and is not the 0 of a read of an empty datagram; the session
\* stays open and its fields, its socket and its queue are unchanged.
C19_WouldBlock ==
    [][(ReadStep /\ "NONBLOCK" \in h.flags /\ "READ" \in h.flags /\ rxq = <<>>) =>
          /\ ret'.val = AVERROR("EAGAIN")
          /\ ret'.val < 0 /\ ~(ret'.val \in IoErrors)
          /\ ret'.data = <<>>
          /\ st' = "Open" /\ s' = s /\ h' = h /\ os' = os /\ rxq' = rxq]_vars

\* C19 witness: a non-blocking read found nothing pending and returned
\* AVERROR(EAGAIN) from its receive.
C19_Witness ==
    /\ st = "Open" /\ ret.op = "read" /\ "NONBLOCK" \in h.flags /\ "READ" \in h.flags
    /\ rxq = <<>> /\ ret.val = AVERROR("EAGAIN")
    /\ Len(calls) = 1 /\ calls[1].call = "recv" /\ ~calls[1].ok

\* a read of an empty datagram returned 0
ZeroByteRead ==
    /\ st = "Open" /\ ret.op = "read" /\ ret.val = 0
    /\ calls # <<>> /\ calls[Len(calls)].call = "recv" /\ calls[Len(calls)].ok

\* C20: a read or a write, whatever it returns, leaves every field of the
\* context (udp_fd, dest_addr, dest_addr_len, is_connected, is_multicast,
\* local_port and the rest) and the flags unchanged, closes nothing, and
\* leaves the session open on the same socket.
C20_IoLeavesSession ==
    [][IoStep =>
          /\ s' = s /\ h' = h
          /\ st' = "Open"
          /\ os' = os /\ os'.created /\ os'.closes = 0
          /\ s'.udp_fd = SockFd
          /\ Named(calls', "closesocket") = <<>>]_vars

\* C20 witness: a write whose send failed returned the error and the session
\* is open on its socket.
C20_Witness ==
    /\ WriteReturned /\ ret.val < 0
    /\ Len(Sends) = 1 /\ ~Sends[1].ok
    /\ os.created /\ os.closes = 0 /\ s.udp_fd = SockFd

\* a step that completes a close
CloseStep == st = "Open" /\ st' = "Closed"

\* C21: the close of a session that is multicast and was opened for reading
\* issues one leave for its destination and then releases the socket; the
\* close of any other session only releases the socket; the socket is
\* released exactly once and close returns 0 whatever the leave returned.
C21_LeaveThenRelease ==
    [][CloseStep =>
          /\ IF s.is_multicast # 0 /\ "READ" \in h.flags
             THEN /\ Len(calls') = 2
                  /\ calls'[1].call = "leave" /\ calls'[1].addr = s.dest_addr
                  /\ calls'[1].fd = s.udp_fd
                  /\ calls'[2].call = "closesocket" /\ calls'[2].fd = s.udp_fd
             ELSE /\ Len(calls') = 1
                  /\ calls'[1].call = "closesocket" /\ calls'[1].fd = s.udp_fd
          /\ os.closes = 0 /\ os'.closes = 1
          /\ ret'.op = "close" /\ ret'.val = 0]_vars

\* C21 witness: a close whose leave failed released the socket after it and
\* returned 0.
C21_Witness ==
    /\ st = "Closed" /\ ret.op = "close" /\ ret.val = 0
    /\ Len(calls) = 2 /\ calls[1].call = "leave" /\ ~calls[1].ok
    /\ calls[2].call = "closesocket" /\ os.closes = 1

\* the calls of the open in progress or just returned that failed
FailedCalls(name) == SelectSeq(Named(OpenCalls, name), LAMBDA c : ~c.ok)

\* the buffer step of open has just run
AfterBufsizeStep ==
    /\ st = "Opening" /\ pc \in {"connect", "fail"} /\ calls # <<>>
    /\ calls[Len(calls)].call \in {"SO_SNDBUF", "nonblock"}

\* C22: a failed SO_SNDBUF sends open to its fail label and the failed open
\* has released the socket; a failed SO_RCVBUF does not: open goes on to its
\* connect step, and a session that opened may have had it fail.
C22_BufferFailures ==
    /\ AfterBufsizeStep =>
         IF calls[Len(calls)].call = "SO_SNDBUF"
         THEN /\ loc.is_output # 0 /\ ~("READ" \in h.flags)
              /\ pc = "fail" <=> ~calls[Len(calls)].ok
         ELSE /\ "READ" \in h.flags
              /\ Len(calls) >= 2 /\ calls[Len(calls) - 1].call = "SO_RCVBUF"
              /\ pc = "connect"
    /\ (st = "Failed" /\ FailedCalls("SO_SNDBUF") # <<>>) =>
         /\ os.closes = 1
         /\ calls[Len(calls)].call = "closesocket"
         /\ ret.val < 0
    /\ (st = "Failed" /\ FailedCalls("SO_RCVBUF") # <<>>) => FailedCalls("connect") # <<>>
    /\ st = "Open" => FailedCalls("SO_SNDBUF") = <<>>

\* C22 witness: a session opened for reading whose SO_RCVBUF call failed.
C22_Witness ==
    /\ st = "Open" /\ ret.op = "open" /\ ret.val = 0 /\ "READ" \in h.flags
    /\ FailedCalls("SO_RCVBUF") # <<>>

\* the value of the buffer_size option of a URL, dflt without the option
BufferSizeOption(u, dflt) ==
    IF HasTag(u, "buffer_size") THEN strtol(TagValue(u, "buffer_size")).val ELSE dflt

\* an open has just returned a session
OpenReturned == st = "Open" /\ ret.op = "open" /\ ret.val = 0

\* C23 as written: open asks for the send buffer of every session with write
\* access to be buffer_size (32768 by default) and for the receive buffer of
\* every session with read access to be buffer_size (65536 by default).
C23_BuffersByAccess ==
    OpenReturned =>
        /\ "WRITE" \in h.flags =>
             /\ Len(Named(calls, "SO_SNDBUF")) = 1
             /\ Named(calls, "SO_SNDBUF")[1].n = BufferSizeOption(hist.url, UDP_TX_BUF_SIZE)
        /\ "READ" \in h.flags =>
             /\ Len(Named(calls, "SO_RCVBUF")) = 1
             /\ Named(calls, "SO_RCVBUF")[1].n = BufferSizeOption(hist.url, UDP_MAX_PKT_SIZE)

\* C23 amended: a session with read access, write access or not, gets one
\* SO_RCVBUF call with buffer_size (65536 by default), which sets the receive
\* buffer when it succeeds, and no SO_SNDBUF call; a session without read
\* access gets one SO_SNDBUF call with buffer_size (32768 by default), which
\* has set the send buffer, and no SO_RCVBUF call.
C23_BuffersByReadAccess ==
    OpenReturned =>
        IF "READ" \in h.flags
        THEN /\ Named(calls, "SO_SNDBUF") = <<>> /\ os.sndbuf = 0
             /\ Len(Named(calls, "SO_RCVBUF")) = 1
             /\ Named(calls, "SO_RCVBUF")[1].n = BufferSizeOption(hist.url, UDP_MAX_PKT_SIZE)
             /\ os.rcvbuf = (IF Named(calls, "SO_RCVBUF")[1].ok
                             THEN BufferSizeOption(hist.url, UDP_MAX_PKT_SIZE) ELSE 0)
        ELSE /\ Named(calls, "SO_RCVBUF") = <<>> /\ os.rcvbuf = 0
             /\ Len(Named(calls, "SO_SNDBUF")) = 1
             /\ Named(calls, "SO_SNDBUF")[1].n = BufferSizeOption(hist.url, UDP_TX_BUF_SIZE)
             /\ os.sndbuf = BufferSizeOption(hist.url, UDP_TX_BUF_SIZE)

\* C23 witness: a session opened for reading and writing without a
\* buffer_size option has a receive buffer of 65536 and no send buffer set.
C23_Witness ==
    /\ OpenReturned /\ h.flags = {"READ", "WRITE"} /\ ~HasTag(hist.url, "buffer_size")
    /\ Named(calls, "SO_SNDBUF") = <<>>
    /\ os.rcvbuf = UDP_MAX_PKT_SIZE /\ os.sndbuf = 0

\* the value of the ttl option of a URL, 16 without the option
TtlOption(u) == IF HasTag(u, "ttl") THEN strtol(TagValue(u, "ttl")).val ELSE DefaultTtl

\* the TTL calls of the open in progress or just returned
TtlCalls == Named(OpenCalls, "set_ttl")

\* the step of open that sets the multicast TTL
TtlStep == st = "Opening" /\ pc = "ttl"

\* what the TTL step does: the call is issued if and only if the destination
\* is multicast and the session has write access, once, for the destination,
\* with the value of the ttl option; open goes to its fail label exactly
\* when the call fails
C24_Step ==
    TtlStep =>
        /\ Len(calls') = Len(calls) + (IF s.is_multicast # 0 /\ "WRITE" \in h.flags THEN 1 ELSE 0)
        /\ \A i \in 1..Len(calls) : calls'[i] = calls[i]
        /\ Len(calls') > Len(calls) =>
             /\ calls'[Len(calls')].call = "set_ttl"
             /\ calls'[Len(calls')].n = TtlOption(uri)
             /\ calls'[Len(calls')].addr = s.dest_addr
             /\ calls'[Len(calls')].fd = loc.udp_fd
             /\ calls'[Len(calls')].ok => os'.mttl = TtlOption(uri)
        /\ pc' = "fail" <=> (Len(calls') > Len(calls) /\ ~calls'[Len(calls')].ok)
        /\ pc' \in {"fail", "join"}

\* no other step issues the call, an open issues it at most once and never
\* for a unicast destination, and a session that opened had it succeed
C24_Calls ==
    /\ Len(TtlCalls) <= 1
    /\ TtlCalls # <<>> =>
         /\ ff_is_multicast_address(TtlCalls[1].addr) # 0
         /\ "WRITE" \in h.flags
    /\ (st = "Open" /\ TtlCalls # <<>>) => TtlCalls[1].ok
    /\ (st = "Open" /\ hist.mcast = 0) => os.mttl = 0

\* C24: open issues the multicast TTL (hop limit) call if and only if the
\* destination is multicast and the session has write access, with the value
\* of the ttl option (16 without it); open fails when that call fails; no
\* open of a unicast destination issues it.
C24_MulticastTtl == [][C24_Step]_vars /\ []C24_Calls

\* C24 witness: the open of a multicast destination for writing with ttl=32
\* has set the multicast TTL to 32 and goes on.
C24_Witness ==
    /\ st = "Opening" /\ pc = "join" /\ HasTag(uri, "ttl")
    /\ Len(TtlCalls) = 1 /\ TtlCalls[1].n = 32 /\ TtlCalls[1].ok /\ os.mttl = 32

\* a step that completes a setRemote call with the URL of the setRemote call
\* that came just before it
SetRemoteAgainStep == SetRemoteStep /\ ret.op = "set_remote" /\ ret'.arg = ret.arg

\* the calls that join a group or one of its sources
JoinCalls(cs) == SelectSeq(cs, LAMBDA c : c.call \in {"join", "join_source", "block_source"})

\* the destination and the multicast flag are those the first call left, and
\* neither call joined a group
SameDestination ==
    /\ s'.dest_addr = s.dest_addr /\ s'.dest_addr_len = s.dest_addr_len
    /\ s'.is_multicast = s.is_multicast
    /\ ret'.val = ret.val \/ calls # <<>>
    /\ JoinCalls(calls) = <<>> /\ JoinCalls(calls') = <<>>

\* C25 as written: the second of two setRemote calls in a row with the same
\* URL leaves the destination, is_multicast and is_connected as the first
\* left them, and neither call issues a join.
C25_SetRemoteTwice ==
    [][SetRemoteAgainStep => (SameDestination /\ s'.is_connected = s.is_connected)]_vars

\* C25 amended: the same, except that when the connect call of the first
\* setRemote failed the second issues the connect call again, and
\* is_connected is then what that second connect call leaves.
C25_SetRemoteTwiceUnlessConnectFailed ==
    [][SetRemoteAgainStep =>
          /\ SameDestination
          /\ IF calls # <<>> /\ ~calls[1].ok
             THEN /\ calls[1].call = "connect" /\ s.is_connected = 0
                  /\ Len(calls') = 1 /\ calls'[1].call = "connect"
                  /\ calls'[1].addr = s.dest_addr
                  /\ s'.is_connected # 0 <=> calls'[1].ok
             ELSE /\ s'.is_connected = s.is_connected
                  /\ calls' = <<>> /\ s' = s]_vars

\* C25 witness: a second setRemote call with the same URL, asking to
\* connect, has returned on a connected session without a connect call.
C25_Witness ==
    /\ st = "Open" /\ ret.op = "set_remote" /\ ret.again /\ ~hist.cfail
    /\ ConnectEnabled(ret.arg) /\ s.is_connected # 0 /\ calls = <<>> /\ ret.val = 0

\* the receive call of the read that has just returned
RecvCall == calls[Len(calls)]

\* a write on a session that is not connected has returned its byte count
UnconnectedWriteDone == WriteReturned /\ s.is_connected = 0 /\ ret.val >= 0

\* the datagram handed to the network is the whole buffer of the write
WriteSendsBuffer ==
    UnconnectedWriteDone =>
        /\ Len(Sends) = 1 /\ Sends[1].call = "sendto"
        /\ Sends[1].data = ret.data /\ ret.val = Len(ret.data)
        /\ Len(ret.data) <= h.max_packet_size

\* a read whose receive succeeded on the datagram at the head of the queue
ReceivedStep == ReadStep /\ rxq # <<>> /\ ret'.val >= 0

\* the read returns bytes of the first datagram only and takes that datagram
\* off the queue, so that no later read returns any part of it
OneDatagramPerRead ==
    /\ ret'.data = Take(rxq[1], RecvCall'.n)
    /\ ret'.val = Len(ret'.data)
    /\ rxq' = Tail(rxq)

FilterCalls(name) == Named(OpenCalls, name)

\* the mode of the source filter as the calls of an open that has not failed
\* show it, at every step: a sources
\* option makes every membership call a source join, without it the group is
\* joined plainly and a source is blocked only when a block option is given
FilterModeOfCalls ==
    st \in {"Opening", "Open"} =>
        /\ HasTag(OpenUrl, "sources") =>
               FilterCalls("join") = <<>> /\ FilterCalls("block_source") = <<>>
        /\ ~HasTag(OpenUrl, "sources") => FilterCalls("join_source") = <<>>
        /\ ~HasTag(OpenUrl, "sources") /\ ~HasTag(OpenUrl, "block") =>
               FilterCalls("block_source") = <<>>

\* a session opened for reading on a multicast destination
FilterCase == st = "Open" /\ hist.mcast # 0 /\ "READ" \in h.flags

\* the membership a successful open has set up, by the options of its URL
FilterModeOfOpen ==
    FilterCase =>
        /\ HasTag(hist.url, "sources") =>
               hist.joins = <<>> /\ hist.srcjoins # <<>> /\ hist.blocks = <<>>
        /\ ~HasTag(hist.url, "sources") /\ HasTag(hist.url, "block") =>
               Len(hist.joins) = 1 /\ hist.srcjoins = <<>> /\ hist.blocks # <<>>
        /\ ~HasTag(hist.url, "sources") /\ ~HasTag(hist.url, "block") =>
               Len(hist.joins) = 1 /\ hist.srcjoins = <<>> /\ hist.blocks = <<>>

\* with both options the hosts are those of the sources option
FilterHostsFromSources ==
    (/\ C9_Case
     /\ HasTag(hist.url, "block")
     /\ Len(TagValue(hist.url, "sources")) <= OpenBufSize - 1
     /\ Len(NamedHosts(hist.url)) <= SourcesElems) => C9_Calls

\* C27: the source filter is in include mode whenever the sources option is
\* present, with or without a block option, and its hosts are then those of
\* the sources option; it is in exclude mode when only the block option is
\* present; no source is joined or blocked when neither option is present.
C27_FilterMode == FilterModeOfCalls /\ FilterModeOfOpen /\ FilterHostsFromSources

\* a session opened with both options: one source join of the host the
\* sources option names, no plain join and no block
C27_Witness ==
    /\ FilterCase /\ ret.op = "open"
    /\ HasTag(hist.url, "sources") /\ HasTag(hist.url, "block")
    /\ hist.joins = <<>> /\ hist.blocks = <<>>
    /\ Len(hist.srcjoins) = 1 /\ hist.srcjoins[1][2] = NamedAddr(H_10_1)

\* a URL whose host is empty or starts with '?' (line 458)
NoHost(u) == u.host = <<>> \/ u.host[1] = "?"

\* the step of open that looks at the host
DestStep == st = "Opening" /\ pc = "dest" /\ NoHost(uri)

\* without read access the step fails the open, and no socket exists; with
\* read access it goes on to create the socket with the destination unset
NoHostStep ==
    DestStep =>
        /\ calls' = calls /\ s' = s /\ ~os.created
        /\ pc' = IF "READ" \in h.flags THEN "create" ELSE "fail"

\* an open without host and without read access has created no socket
NoHostRejected ==
    (st = "Opening" /\ NoHost(uri) /\ ~("READ" \in h.flags) /\ pc \notin {"parse", "dest"}) =>
        pc = "fail" /\ ~os.created /\ Named(calls, "socket") = <<>>

\* a session opened without host has no destination and is in no group
NoHostOpened ==
    (st = "Open" /\ NoHost(hist.url) /\ ~hist.remoted) =>
        /\ "READ" \in h.flags
        /\ s.dest_addr.family = "AF_UNSPEC" /\ s.dest_addr_len = 0
        /\ s.is_multicast = 0
        /\ hist.joins = <<>> /\ hist.srcjoins = <<>> /\ os.members = {}

\* a call the OS can only refuse: a connect without a whole address
Refused(c) == c.call = "connect" /\ ~OsConnectOk(c.addr, c.n)

\* an open without host and with read access issues no call that the OS can
\* only refuse: it fails only where the environment fails it
NoHostCanSucceed ==
    (st = "Opening" /\ NoHost(uri) /\ "READ" \in h.flags) =>
        \A i \in 1..Len(calls) : ~Refused(calls[i])

\* C28: open with an empty or '?'-prefixed host and without read access
\* fails before any socket is created; with read access the open is not
\* refused, issues no call that can only fail, and the session it returns
\* has no destination, is not multicast and has joined no group.
C28_NoHost ==
    /\ [][NoHostStep]_vars
    /\ [](NoHostRejected /\ NoHostOpened)
    /\ []NoHostCanSucceed

\* the parts of C28 that hold: the rejection without read access and the
\* unset destination of the session opened with read access
C28_NoHostRejectedOrUnset == [][NoHostStep]_vars /\ [](NoHostRejected /\ NoHostOpened)

\* an open for reading of a URL without host and with connect enabled is
\* failing after a connect to the unset destination
C28_ConnectWithoutHost ==
    /\ st = "Opening" /\ pc = "fail" /\ NoHost(uri) /\ "READ" \in h.flags
    /\ os.created
    /\ calls[Len(calls)].call = "connect" /\ calls[Len(calls)].addr.family = "AF_UNSPEC"

\* the step of open that runs udp_socket_create
CreateStep == st = "Opening" /\ pc = "create"

\* the candidates the resolver gives udp_socket_create: the local address,
\* the local port, and the family of the destination when there is one
Candidates ==
    udp_resolve_host(loc.localaddr, s'.local_port,
                     IF s'.dest_addr.family # "AF_UNSPEC"
                     THEN s'.dest_addr.family ELSE "AF_UNSPEC",
                     {"AI_PASSIVE"})

\* the calls the step has issued
CreateCalls == SubSeq(calls', Len(calls) + 1, Len(calls'))

\* one socket() per candidate, in the resolver's order, up to and including
\* the first that succeeds
TriedInOrder(cands, new) ==
    /\ Len(new) <= Len(cands)
    /\ \A i \in 1..Len(new) :
         /\ new[i].call = "socket" /\ new[i].addr = cands[i]
         /\ i < Len(new) => ~new[i].ok

\* the factory fails exactly when there is no candidate or socket() failed
\* for each, and then no socket exists
FailsWhenExhausted(cands, new) ==
    /\ pc' = "fail" <=>
         (cands = <<>> \/ (Len(new) = Len(cands) /\ \A i \in 1..Len(new) : ~new[i].ok))
    /\ pc' = "fail" => loc'.udp_fd < 0 /\ ~os'.created

\* otherwise the socket is the one of the last call, made for the candidate
\* it was created for
FirstSuccessWins(cands, new) ==
    pc' # "fail" =>
        /\ pc' = "reuse" /\ new # <<>> /\ new[Len(new)].ok
        /\ loc'.udp_fd = new[Len(new)].fd /\ loc'.udp_fd >= 0
        /\ loc'.my_addr = cands[Len(new)] /\ loc'.len = AddrLen(cands[Len(new)])
        /\ os'.created

\* C29: udp_socket_create calls socket() for the resolver's candidates in
\* order, stops at the first call that succeeds and uses that socket and
\* that candidate's address; it fails, leaving no socket, exactly when the
\* resolver gives no candidate or socket() fails for every candidate.
C29_SocketFactory ==
    [][CreateStep =>
         /\ TriedInOrder(Candidates, CreateCalls)
         /\ FailsWhenExhausted(Candidates, CreateCalls)
         /\ FirstSuccessWins(Candidates, CreateCalls)]_vars

\* socket() failed for the first of two candidates and succeeded for the
\* second, whose address the open goes on to bind
C29_Witness ==
    /\ st = "Opening" /\ pc = "reuse"
    /\ Len(Named(calls, "socket")) = 2
    /\ ~Named(calls, "socket")[1].ok /\ Named(calls, "socket")[2].ok
    /\ loc.my_addr = Named(calls, "socket")[2].addr
    /\ loc.my_addr.family = "AF_INET6"

\* the membership step of an open for reading on a multicast destination
\* whose URL named sources
SourcesStep ==
    /\ st = "Opening" /\ pc = "join"
    /\ s.is_multicast # 0 /\ "READ" \in h.flags /\ loc.num_sources > 0

\* the source calls the step has issued
SourceCalls ==
    SelectSeq(SubSeq(calls', Len(calls) + 1, Len(calls')),
              LAMBDA c : c.call \in {"join_source", "block_source"})

\* what source i of the list resolves to, <<>> when it does not resolve
SourceAddr(i) == udp_resolve_host(loc.sources[i], 0, "AF_UNSPEC", {"AI_NUMERICHOST"})

\* call i is the call for source i of the list, every source up to the last
\* call was resolved, and every call before the last succeeded
InListOrder(sc) ==
    /\ Len(sc) <= loc.num_sources
    /\ \A i \in 1..Len(sc) :
         /\ SourceAddr(i) # <<>> /\ sc[i].src = SourceAddr(i)[1]
         /\ sc[i].call = SourceCallName(loc.include)
         /\ i < Len(sc) => sc[i].ok

\* a source that does not resolve gets no call and neither does any source
\* after it; a call that fails is the last call; in both cases open fails
StopsAtFirstFailure(sc) ==
    /\ \A j \in 1..loc.num_sources : SourceAddr(j) = <<>> => Len(sc) < j /\ pc' = "fail"
    /\ (sc # <<>> /\ ~sc[Len(sc)].ok) => pc' = "fail"
    /\ pc' # "fail" => Len(sc) = loc.num_sources

\* the step that ends a failing open releases the socket
FailStep == st = "Opening" /\ pc = "fail" /\ loc.udp_fd >= 0

SocketReleased ==
    /\ st' = "Failed" /\ ret'.val < 0
    /\ os'.closes = os.closes + 1 /\ os'.closes = 1
    /\ calls'[Len(calls')].call = "closesocket" /\ calls'[Len(calls')].fd = loc.udp_fd

\* C30: the sources of the list are taken in order, one call each; the loop
\* ends at the first source that does not resolve (which gets no call) or
\* whose join or block call fails; open then fails, no call is issued for a
\* later source, and the failing open closes the socket.
C30_SourcesStopAtFirstFailure ==
    /\ [][SourcesStep => InListOrder(SourceCalls) /\ StopsAtFirstFailure(SourceCalls)]_vars
    /\ [][FailStep => SocketReleased]_vars

\* an open whose list named two sources has failed after the call for the
\* first one failed: no call for the second, and the socket closed
C30_Witness ==
    /\ st = "Failed" /\ os.closes = 1
    /\ HasTag(ret.arg, "sources") /\ Len(NamedHosts(ret.arg)) = 2
    /\ Len(Named(calls, "join_source")) = 1 /\ ~Named(calls, "join_source")[1].ok
    /\ calls[Len(calls)].call = "closesocket"

\* the calls the membership step has issued, of whatever kind
StepCalls == SubSeq(calls', Len(calls) + 1, Len(calls'))

\* source i of the list resolves to an IPv4 address
SourceIsV4(i) == SourceAddr(i) # <<>> /\ SourceAddr(i)[1].family = "AF_INET"

\* source i of the list resolves to an address that is not IPv4
SourceIsOther(i) == SourceAddr(i) # <<>> /\ SourceAddr(i)[1].family # "AF_INET"

\* the membership step on a build with struct ip_mreq_source only
V4OnlyStep == SourcesStep /\ platform = "ip_mreq_source"

\* an IPv4 group with IPv4 sources: the step fails only where a call it
\* issued failed, and otherwise has issued one call per source
V4SourcesWork ==
    (/\ s.dest_addr.family = "AF_INET"
     /\ \A i \in 1..loc.num_sources : SourceIsV4(i)) =>
        IF \A k \in 1..Len(StepCalls) : StepCalls[k].ok
        THEN pc' = "bufsize" /\ Len(SourceCalls) = loc.num_sources
        ELSE pc' = "fail"

\* a group that is not IPv4 fails the step without a source call
OtherGroupFails ==
    s.dest_addr.family # "AF_INET" => pc' = "fail" /\ SourceCalls = <<>>

\* a build with neither facility fails every request without a source call
NoFacilityFails ==
    (SourcesStep /\ platform = "none") => pc' = "fail" /\ SourceCalls = <<>>

\* C31 as stated: with struct ip_mreq_source only, an IPv4 group with IPv4
\* sources is filtered, and an IPv6 group or a source that is not IPv4
\* fails the open without any source call having been issued; with neither
\* facility every request fails.
C31_V4OnlyFacility ==
    /\ [][V4OnlyStep =>
            /\ V4SourcesWork /\ OtherGroupFails
            /\ (\E j \in 1..loc.num_sources : SourceIsOther(j)) =>
                   pc' = "fail" /\ SourceCalls = <<>>]_vars
    /\ [][NoFacilityFails]_vars

\* C31: the same, except that a source that is not IPv4 fails the open
\* without a call for itself or for a later source: the IPv4 sources named
\* before it have had their calls.
C31_V4OnlyFacilityFromFirstOther ==
    /\ [][V4OnlyStep =>
            /\ V4SourcesWork /\ OtherGroupFails
            /\ \A j \in 1..loc.num_sources :
                   SourceIsOther(j) => pc' = "fail" /\ Len(SourceCalls) < j]_vars
    /\ [][NoFacilityFails]_vars

\* on a build with struct ip_mreq_source only, an open of an IPv4 group is
\* failing at an IPv6 source named second, after the source join of the
\* IPv4 source named first
C31_Witness ==
    /\ st = "Opening" /\ pc = "fail" /\ platform = "ip_mreq_source"
    /\ s.dest_addr.family = "AF_INET" /\ loc.num_sources = 2
    /\ SourceAddr(1) # <<>> /\ SourceAddr(1)[1].family = "AF_INET" /\ SourceAddr(2) # <<>>
    /\ SourceAddr(2)[1].family = "AF_INET6"
    /\ Len(Named(calls, "join_source")) = 1 /\ Named(calls, "join_source")[1].ok
    /\ calls[Len(calls)].call = "join_source"

\* the option is present and its value does not start with a number
Malformed(u, tag) == HasTag(u, tag) /\ strtol(TagValue(u, tag)).end = 0

\* the options udp_open reads
KnownKeys ==
    {"reuse", "ttl", "localport", "pkt_size", "buffer_size", "connect", "localaddr",
     "sources", "block"}

\* every key of the query is one udp_open does not read
OnlyUnknownKeys(u) == u.hasq /\ \A i \in 1..Len(u.query) : u.query[i].tag \notin KnownKeys

\* the option parsing of an open has just ended
Parsed == st = "Opening" /\ pc \in {"dest", "fail"} /\ calls = <<>> /\ loc.hostname = <<>>

\* the buffer size of a session opened without the buffer_size option
DefaultBufferSize == IF "READ" \in h.flags THEN UDP_MAX_PKT_SIZE ELSE UDP_TX_BUF_SIZE

\* every field is as udp_open sets it without any option
AllDefaults ==
    /\ s.ttl = DefaultTtl /\ s.buffer_size = DefaultBufferSize
    /\ h.max_packet_size = DefaultMaxPacketSize
    /\ s.local_port = 0 /\ s.is_connected = 0 /\ s.reuse_socket = 0
    /\ loc.localaddr = <<>> /\ loc.num_sources = 0 /\ loc.include = 0

\* the options udp_open reads as integers with no test of the value
IntegerKeys == {"ttl", "localport", "pkt_size", "buffer_size", "connect"}

\* parsing does not fail on a malformed value or an unknown key
ParseGoesOn ==
    ((\E tag \in IntegerKeys : Malformed(uri, tag)) \/ OnlyUnknownKeys(uri)) => pc = "dest"

\* C32 as stated: when the option parsing of open has ended, it has not
\* failed on a malformed value, an integer option whose value is malformed
\* has left its field at the default (ttl 16, buffer size 32768 or 65536,
\* packet size 1472, local port 0, connect off), and a query of unknown keys
\* has left every field at its default.
C32_MalformedIsDefault ==
    Parsed =>
        /\ ParseGoesOn
        /\ Malformed(uri, "ttl") => s.ttl = DefaultTtl
        /\ Malformed(uri, "buffer_size") => s.buffer_size = DefaultBufferSize
        /\ Malformed(uri, "pkt_size") => h.max_packet_size = DefaultMaxPacketSize
        /\ Malformed(uri, "localport") => s.local_port = 0
        /\ Malformed(uri, "connect") => s.is_connected = 0
        /\ OnlyUnknownKeys(uri) => AllDefaults

\* what the parsing does: a malformed value sets its field to 0, which is
\* the default of localport and connect only; unknown keys change nothing
C32_MalformedIsZero ==
    Parsed =>
        /\ ParseGoesOn
        /\ Malformed(uri, "ttl") => s.ttl = 0
        /\ Malformed(uri, "buffer_size") => s.buffer_size = 0
        /\ Malformed(uri, "pkt_size") => h.max_packet_size = 0
        /\ Malformed(uri, "localport") => s.local_port = 0
        /\ Malformed(uri, "connect") => s.is_connected = 0
        /\ OnlyUnknownKeys(uri) => AllDefaults

\* the parsing of a URL with a malformed ttl has ended with ttl 0
C32_MalformedTtlParsed == Parsed /\ Malformed(uri, "ttl") /\ s.ttl = 0

\* the URL of the open in progress or just returned
OpenArg == IF st = "Opening" THEN uri ELSE ret.arg

\* the calls of an open, while it runs and once it has returned or failed
CallsOfOpen == IF st = "Opening" \/ (st \in {"Open", "Failed"} /\ ret.op = "open") THEN calls ELSE <<>>

\* call i of the open is a connect
IsConnect(i) == CallsOfOpen[i].call = "connect"

\* before call i the socket was created and bound, and call i follows the
\* last call of the configuration: the send buffer size of an output session,
\* the non-blocking mode of an input session
OnConfiguredSocket(i) ==
    /\ CallsOfOpen[i].fd = SockFd
    /\ \E j \in 1..(i - 1) : CallsOfOpen[j].call = "socket" /\ CallsOfOpen[j].ok
    /\ \E j \in 1..(i - 1) : CallsOfOpen[j].call = "bind" /\ CallsOfOpen[j].ok
    /\ i > 1 /\ CallsOfOpen[i - 1].call \in {"SO_SNDBUF", "nonblock"} /\ CallsOfOpen[i - 1].ok

\* the connect calls of an open: at most one, for an enabled connect option,
\* on the configured socket
ConnectInOpen ==
    /\ Len(Named(CallsOfOpen, "connect")) <= 1
    /\ \A i \in 1..Len(CallsOfOpen) :
         IsConnect(i) => ConnectEnabled(OpenArg) /\ OnConfiguredSocket(i)

\* the destination step of open, whatever the host
AnyDestStep == st = "Opening" /\ pc = "dest"

\* C33: an open issues at most one connect, only when the connect option is
\* enabled, and only on the socket it has created, bound and configured;
\* its destination step, which runs before the socket is created, issues no
\* connect whatever the value of the connect option.
C33_ConnectLast ==
    /\ []ConnectInOpen
    /\ [][AnyDestStep => Named(calls', "connect") = <<>>]_vars

\* a connect value that udp_open and ff_udp_set_remote_url read alike
ReadAlike(u) ==
    HasTag(u, "connect") =>
        (strtol(TagValue(u, "connect")).val # 0
            <=> strtol(Take(TagValue(u, "connect"), RemoteBufSize - 1)).val # 0)

\* the same for the connect values that the buffer of 256 characters and the
\* buffer of 10 characters read alike: this part holds
C33_ConnectLastWhenReadAlike ==
    /\ [](ReadAlike(OpenArg) => ConnectInOpen)
    /\ [][AnyDestStep /\ ReadAlike(uri) => Named(calls', "connect") = <<>>]_vars

\* the destination step of an open with connect=4294967296 has called
\* connect on descriptor 0, before any socket was created
C33_ConnectBeforeSocket ==
    /\ st = "Opening" /\ pc \in {"create", "fail"} /\ ~os.created
    /\ Len(calls) = 1 /\ calls[1].call = "connect" /\ calls[1].fd = 0
    /\ TagValue(uri, "connect") = H_2_32

\* a setRemote call that returns an error
SetRemoteFailedStep == SetRemoteStep /\ ret'.val < 0

\* the stored destination and the multicast flag are those before the call
DestinationKept ==
    /\ s'.dest_addr = s.dest_addr /\ s'.dest_addr_len = s.dest_addr_len
    /\ s'.is_multicast = s.is_multicast

\* a write of a session that is not connected and has a destination hands
\* sendto the destination with the length of its address
SendtoWholeAddress ==
    (WriteReturned /\ s.is_connected = 0 /\ s.dest_addr.family # "AF_UNSPEC" /\ Sends # <<>>) =>
        /\ Sends[1].call = "sendto" /\ Sends[1].addr = s.dest_addr
        /\ Sends[1].n = AddrLen(s.dest_addr)

\* C34: a setRemote call that returns an error, because the host does not
\* resolve or because connect fails, leaves the destination address, its
\* length and the multicast flag as they were, and a later write of a
\* session that is not connected sends to the stored destination with the
\* length of its address.
C34_FailedSetRemoteKeepsDestination ==
    /\ [][SetRemoteFailedStep => DestinationKept]_vars
    /\ []SendtoWholeAddress

\* what holds: a host that does not resolve leaves the address and the
\* multicast flag, and a failed connect leaves the session not connected
C34_FailedSetRemoteKeepsPart ==
    [][SetRemoteFailedStep =>
         /\ s'.is_connected = 0 \/ s'.is_connected = s.is_connected
         /\ s'.dest_addr_len < 0 =>
                s'.dest_addr = s.dest_addr /\ s'.is_multicast = s.is_multicast]_vars

\* a write has handed sendto the old address with the error code of a failed
\* setRemote as its length
C34_SendtoWithErrorCode ==
    /\ WriteReturned /\ hist.remoted /\ s.is_connected = 0
    /\ s.dest_addr.family # "AF_UNSPEC" /\ s.dest_addr_len = AVERROR("EIO")
    /\ Sends # <<>> /\ Sends[1].n = AVERROR("EIO") /\ ~Sends[1].ok

(***************************************************************************)
(* ff_udp_set_remote_url run by one thread, statement by statement, while  *)
(* another thread calls udp_write on the same session.  Nothing in udp.c   *)
(* orders the two: every store of ff_udp_set_remote_url is a step of its   *)
(* own.  udp_write reads is_connected, dest_addr and dest_addr_len in one  *)
(* step, which gives the fewest interleavings.                             *)
(***************************************************************************)
\* the URLs of the concurrent call: connect enabled, an IPv6 host, an IPv4
\* group and a host that does not resolve
ConcurrentUrls ==
    {UrlOf(host, 5004, <<Pair("connect", <<"1">>)>>) : host \in {H_v6_1, H_239_2, H_bad}}

\* the return of the concurrent call
SettingReturns(val) ==
    /\ ret' = Ret("set_remote", setting.uri, val)
    /\ setting' = NoSetting

\* line 332: the call starts on an open session that is not connected and has
\* a destination; av_url_split fills locals only.  One concurrent call is
\* followed per session.
set_remote_begin ==
    /\ st = "Open" /\ plan = "remote" /\ setting.pc = "idle" /\ ~hist.remoted
    /\ s.is_connected = 0 /\ s.dest_addr.family # "AF_UNSPEC"
    /\ \E u \in ConcurrentUrls : setting' = [NoSetting EXCEPT !.pc = "set_url", !.uri = u]
    /\ hist' = [hist EXCEPT !.remoted = TRUE]
    /\ UNCHANGED <<st, pc, platform, plan, uri, h, s, loc, os, calls, rxq, ret, dialog>>

\* lines 244-257: udp_set_url copies the resolved address into dest_addr and
\* returns its length, or returns AVERROR(EIO) and copies nothing
set_remote_set_url ==
    /\ setting.pc = "set_url"
    /\ \E r \in {udp_set_url(s.dest_addr, setting.uri.host, setting.uri.port)} :
         /\ s' = [s EXCEPT !.dest_addr = r.addr]
         /\ setting' = [setting EXCEPT !.pc = "store_len", !.len = r.len]
    /\ UNCHANGED <<st, pc, platform, plan, uri, h, loc, os, calls, hist, rxq, ret, dialog>>

\* lines 335-338: the length, or the error code, is stored in dest_addr_len
set_remote_store_len ==
    /\ setting.pc = "store_len"
    /\ s' = [s EXCEPT !.dest_addr_len = setting.len]
    /\ IF setting.len < 0
       THEN SettingReturns(AVERROR("EIO"))
       ELSE setting' = [setting EXCEPT !.pc = "multicast"] /\ ret' = ret
    /\ UNCHANGED <<st, pc, platform, plan, uri, h, loc, os, calls, hist, rxq, dialog>>

\* line 339: is_multicast of the new destination
set_remote_multicast ==
    /\ setting.pc = "multicast"
    /\ s' = [s EXCEPT !.is_multicast = ff_is_multicast_address(s.dest_addr)]
    /\ setting' = [setting EXCEPT !.pc = "option"]
    /\ UNCHANGED <<st, pc, platform, plan, uri, h, loc, os, calls, hist, rxq, ret, dialog>>

\* lines 340-343: the connect option is stored in is_connected before connect
\* is called
set_remote_option ==
    /\ setting.pc = "option"
    /\ LET tag == IF setting.uri.hasq
                  THEN av_find_info_tag(RemoteBufSize, "connect", setting.uri.query)
                  ELSE [found |-> FALSE, arg |-> <<>>]
           now == strtol(tag.arg).val
       IN  IF ~tag.found
           THEN SettingReturns(0) /\ s' = s
           ELSE /\ s' = [s EXCEPT !.is_connected = now]
                /\ IF now # 0 /\ s.is_connected = 0
                   THEN /\ setting' = [setting EXCEPT !.pc = "connect",
                                                      !.was_connected = s.is_connected]
                        /\ ret' = ret
                   ELSE SettingReturns(0)
    /\ UNCHANGED <<st, pc, platform, plan, uri, h, loc, os, calls, hist, rxq, dialog>>

\* lines 344-345: connect to the stored destination
set_remote_connect ==
    /\ setting.pc = "connect"
    /\ \E ok \in {FALSE, OsConnectOk(s.dest_addr, s.dest_addr_len)} :
         /\ calls' = Append(calls, Call("connect", s.udp_fd, s.dest_addr, NoAddr,
                                        s.dest_addr_len, ok))
         /\ os' = IF ok THEN [os EXCEPT !.peer = s.dest_addr] ELSE os
         /\ IF ok THEN SettingReturns(0)
            ELSE setting' = [setting EXCEPT !.pc = "connect_failed"] /\ ret' = ret
    /\ UNCHANGED <<st, pc, platform, plan, uri, h, s, loc, hist, rxq, dialog>>

\* lines 346-348: a failed connect clears is_connected
set_remote_connect_failed ==
    /\ setting.pc = "connect_failed"
    /\ s' = [s EXCEPT !.is_connected = 0]
    /\ SettingReturns(AVERROR("EIO"))
    /\ UNCHANGED <<st, pc, platform, plan, uri, h, loc, os, calls, hist, rxq, dialog>>

ConcurrentNext ==
    \/ udp_open_parse \/ udp_open_dest \/ udp_open_create \/ udp_open_reuse
    \/ udp_open_bind \/ udp_open_port \/ udp_open_ttl \/ udp_open_join
    \/ udp_open_bufsize \/ udp_open_connect \/ udp_open_done \/ udp_open_fail
    \/ set_remote_begin \/ set_remote_set_url \/ set_remote_store_len
    \/ set_remote_multicast \/ set_remote_option \/ set_remote_connect
    \/ set_remote_connect_failed
    \/ udp_write

SpecConcurrent == Init /\ [][ConcurrentNext]_vars

\* a write that used send did so on a socket the OS has connected
SendOnConnectedSocket ==
    (WriteReturned /\ Sends # <<>> /\ Sends[1].call = "send") => os.peer.family # "AF_UNSPEC"

\* a write that used sendto to an address gave the length of that address
SendtoPairsAddressAndLength ==
    (WriteReturned /\ Sends # <<>> /\ Sends[1].call = "sendto"
        /\ Sends[1].addr.family # "AF_UNSPEC") => Sends[1].n = AddrLen(Sends[1].addr)

\* C35: while another thread runs setRemote with connect enabled on an open
\* session that is not connected, no write uses send before the OS has
\* connected the socket, and no write hands sendto an address with a length
\* or an error code that does not belong to it.
C35_WriteDuringSetRemote == SendOnConnectedSocket /\ SendtoPairsAddressAndLength

\* a write has used send while the other thread stands before its connect
C35_SendBeforeConnect ==
    /\ WriteReturned /\ Sends # <<>> /\ Sends[1].call = "send"
    /\ os.peer.family = "AF_UNSPEC" /\ setting.pc = "connect"

\* a write has handed sendto the IPv6 address the other thread has just
\* stored together with the length of the IPv4 address it replaces
C35_NewAddressOldLength ==
    /\ WriteReturned /\ Sends # <<>> /\ Sends[1].call = "sendto"
    /\ Sends[1].addr.family = "AF_INET6" /\ Sends[1].n = AddrLen([Sends[1].addr EXCEPT !.family = "AF_INET"])
    /\ setting.pc = "store_len"

(***************************************************************************)
(* The button box of the preferences dialog (prefdialog.cpp).  The dialog  *)
(* counts the signals it has emitted; a click reaches the handler only     *)
(* while the dialog is shown.                                              *)
(***************************************************************************)
\* the number of requests followed per dialog
MaxRequests == 4

\* what standardButton returns for the buttons of the box: its five standard
\* buttons, and NoButton for any other
Buttons == {"Ok", "Apply", "Cancel", "Reset", "RestoreDefaults", "NoButton"}

hide(d) == [d EXCEPT !.visible = FALSE]

emit(d, signal) == [d EXCEPT ![signal] = @ + 1]

\* set(Pref()): the widgets show the default preferences
set_Pref(d) == [d EXCEPT !.pref = "default"]

\* the switch with every case falling into the next: no break at all
DBB_clicked_no_break(d, button) ==
    CASE button = "Ok"     -> set_Pref(emit(hide(emit(hide(d), "applyRequested")), "resetRequested"))
      [] button = "Apply"  -> set_Pref(emit(hide(emit(d, "applyRequested")), "resetRequested"))
      [] button = "Cancel" -> set_Pref(emit(hide(d), "resetRequested"))
      [] button = "Reset"  -> set_Pref(emit(d, "resetRequested"))
      [] button = "RestoreDefaults" -> set_Pref(d)
      [] OTHER -> d

\* the switch of the handler: Ok falls into Apply, Cancel falls into Reset
DBB_clicked(d, button) ==
    CASE button = "Ok"     -> emit(hide(d), "applyRequested")
      [] button = "Apply"  -> emit(d, "applyRequested")
      [] button = "Cancel" -> emit(hide(d), "resetRequested")
      [] button = "Reset"  -> emit(d, "resetRequested")
      [] button = "RestoreDefaults" -> set_Pref(d)
      [] OTHER -> d

\* the dialog is shown
showEvent ==
    /\ ~dialog.visible
    /\ dialog' = [dialog EXCEPT !.visible = TRUE]
    /\ UNCHANGED <<st, pc, platform, plan, uri, h, s, loc, os, calls, hist, rxq, ret, setting>>

\* a button of the box is clicked
dbb_clicked ==
    /\ dialog.visible
    /\ dialog.applyRequested < MaxRequests /\ dialog.resetRequested < MaxRequests
    /\ \E button \in Buttons :
         dialog' = [DBB_clicked(dialog, button) EXCEPT !.clicked = button]
    /\ UNCHANGED <<st, pc, platform, plan, uri, h, s, loc, os, calls, hist, rxq, ret, setting>>

\* no transport session takes part
DialogInit ==
    InitWith([uri |-> NoUrl, flags |-> {}, platform |-> "group_source_req", plan |-> "close"])

DialogNext == showEvent \/ dbb_clicked

SpecDialog == DialogInit /\ [][DialogNext]_vars

\* the step is the handling of a click on the button
ClickedStep(button) == dialog.visible /\ dialog'.clicked = button /\ dialog' # dialog

\* how often the step emits the signal
Emitted(signal) == dialog'[signal] - dialog[signal]

Hides == ~dialog'.visible

\* C36: a click on Ok hides the dialog and emits applyRequested once and
\* nothing else; Apply emits applyRequested once and leaves the dialog shown;
\* Cancel hides the dialog and emits resetRequested once and nothing else;
\* Reset emits resetRequested once and leaves the dialog shown;
\* RestoreDefaults emits nothing and leaves the dialog shown; no click emits
\* both signals.
C36_OneRequestPerClick ==
    [][/\ ClickedStep("Ok") =>
            Hides /\ Emitted("applyRequested") = 1 /\ Emitted("resetRequested") = 0
       /\ ClickedStep("Apply") =>
            ~Hides /\ Emitted("applyRequested") = 1 /\ Emitted("resetRequested") = 0
       /\ ClickedStep("Cancel") =>
            Hides /\ Emitted("applyRequested") = 0 /\ Emitted("resetRequested") = 1
       /\ ClickedStep("Reset") =>
            ~Hides /\ Emitted("applyRequested") = 0 /\ Emitted("resetRequested") = 1
       /\ ClickedStep("RestoreDefaults") =>
            ~Hides /\ Emitted("applyRequested") = 0 /\ Emitted("resetRequested") = 0
       /\ \A button \in Buttons :
            ClickedStep(button) =>
                ~(Emitted("applyRequested") > 0 /\ Emitted("resetRequested") > 0)]_vars

\* after an Apply and a Reset, a click on Cancel has hidden the dialog
C36_Witness ==
    /\ dialog.clicked = "Cancel" /\ ~dialog.visible
    /\ dialog.applyRequested = 1 /\ dialog.resetRequested = 2
    /\ dialog.pref = "given"

=============================================================================
